---- MODULE Spec2Model ----
(***************************************************************************)
(* Neon Sentinel backend: the gatekeeper of routes/api.ts (sign-identity,  *)
(* raw run derivation, sign-game-run, faucet), its fixed-window rate       *)
(* limiter (rateLimit.ts), the helpers of utils.ts and the two stores of   *)
(* db.ts (SQLite, and the in-memory store used when the SQLite driver is   *)
(* unavailable).  Every handler is an async function: the code between two *)
(* awaits runs to completion on the single JavaScript thread, so each      *)
(* action below is one such segment and the awaits are the only points at  *)
(* which requests interleave.                                              *)
(***************************************************************************)
EXTENDS Integers, Sequences, FiniteSets, TLC

(***************************************************************************)
(* Bounds of the model.                                                    *)
(***************************************************************************)
NumReq == 2                  \* request slots handled concurrently
MaxTime == 2                 \* the clock runs over 0..MaxTime
SignIdentityLimit == 2       \* deps.signIdentityLimit
SignIdentityWindowMs == 2    \* deps.signIdentityWindowMs
SignGameLimit == 2           \* deps.signGameLimit
SignGameWindowMs == 2        \* deps.signGameWindowMs
FaucetWindowMs == 2          \* deps.faucetWindowMs
MaxRawRuns == 2              \* rows kept of the raw_runs log
MaxElems == 2                \* longest sequence among the values given to utils.ts
MaxDouble == 12              \* the largest finite double (Number.MAX_VALUE), scaled down

(***************************************************************************)
(* Program constants.                                                      *)
(***************************************************************************)
FaucetIpLimit == 5
Bytes32 == 32

Req == 1 .. NumReq
Time == 0 .. MaxTime
NoTime == 0 - 1

(***************************************************************************)
(* Wallets.  A wallet arrives as text: the lower-case or the checksummed   *)
(* spelling of a 20-byte address, or text that is no address.              *)
(***************************************************************************)
ChecksumText == <<"0xAa", "0xBb">>
LowerText == <<"0xaa", "0xbb">>
NotAnAddress == "0xzz"
NullWallet == "null"
Addr == 1 .. Len(ChecksumText)
WalletText == {ChecksumText[a] : a \in Addr} \cup {LowerText[a] : a \in Addr}
WalletInputs == WalletText \cup {NotAnAddress}

isAddress(value) == value \in WalletText

getAddress(value) ==
  ChecksumText[CHOOSE a \in Addr : value \in {ChecksumText[a], LowerText[a]}]

\* A normalizeAddress that validates and returns the text as it was given.
normalizeAddressAsGiven(value) ==
  IF ~isAddress(value)
    THEN [ok |-> FALSE, value |-> NullWallet]
    ELSE [ok |-> TRUE, value |-> value]

\* utils.ts normalizeAddress: [ok, value]; ok = FALSE is the thrown Error.
normalizeAddress(value) ==
  IF ~isAddress(value)
    THEN [ok |-> FALSE, value |-> NullWallet]
    ELSE [ok |-> TRUE, value |-> getAddress(value)]

(***************************************************************************)
(* uint256 inputs.  An input number is hi * 2^256 + lo with 0 <= lo <      *)
(* 2^256; num = FALSE is text BigInt() cannot parse.                       *)
(***************************************************************************)
U(n) == [num |-> TRUE, hi |-> 0, lo |-> n]
TooBig == [num |-> TRUE, hi |-> 1, lo |-> 0]
Negative == [num |-> TRUE, hi |-> 0 - 1, lo |-> 0]
NotANumber == [num |-> FALSE, hi |-> 0, lo |-> 0]
NoUint == 0 - 1

\* A parseUint256 with no range check.
parseUint256Unchecked(value) ==
  IF ~value.num
    THEN [ok |-> FALSE, value |-> NoUint]
    ELSE [ok |-> TRUE, value |-> value.lo]

\* utils.ts parseUint256: [ok, value]; ok = FALSE is the thrown Error.
parseUint256(value) ==
  IF ~value.num
    THEN [ok |-> FALSE, value |-> NoUint]
    ELSE IF value.hi < 0 \/ value.hi > 0
      THEN [ok |-> FALSE, value |-> NoUint]
      ELSE [ok |-> TRUE, value |-> value.lo]

(***************************************************************************)
(* JSON values.  An object keeps its entries in insertion order.           *)
(***************************************************************************)
\* A number is n + s, s one of "" (an integer) and ".5"; a literal beyond the
\* range of a double (1e400) is parsed to Infinity.
Num(n) == [t |-> "number", n |-> n, s |-> "", xs |-> <<>>]
Half(n) == [t |-> "number", n |-> n, s |-> ".5", xs |-> <<>>]
Infinite == [t |-> "number", n |-> 0, s |-> "Infinity", xs |-> <<>>]
Str(s) == [t |-> "string", n |-> 0, s |-> s, xs |-> <<>>]
Arr(xs) == [t |-> "array", n |-> 0, s |-> "", xs |-> xs]
Obj(entries) == [t |-> "object", n |-> 0, s |-> "", xs |-> entries]
Null == [t |-> "null", n |-> 0, s |-> "", xs |-> <<>>]
Undefined == [t |-> "undefined", n |-> 0, s |-> "", xs |-> <<>>]
KV(k, v) == [k |-> k, v |-> v]

\* The property names in use, in the order of JavaScript's default sort.
KeyOrder == <<"events", "extractionValue", "score", "sessionId", "value", "wallet">>
KeyRank(k) == CHOOSE i \in 1 .. Len(KeyOrder) : KeyOrder[i] = k

Quote(s) == "\"" \o s \o "\""

\* JSON.stringify of a scalar.
JSONstringifyScalar(v) ==
  IF v.t = "number"
    THEN IF v.s = "Infinity" THEN "null"
         ELSE IF v.s = "" THEN ToString(v.n)
         ELSE IF v.n >= 0 THEN ToString(v.n) \o v.s
         ELSE "-" \o ToString(0 - v.n - 1) \o v.s
  ELSE IF v.t = "string" THEN Quote(v.s)
  ELSE "null"

RECURSIVE InsertSorted(_, _)
InsertSorted(k, keys) ==
  IF keys = <<>> THEN <<k>>
  ELSE IF KeyRank(k) <= KeyRank(Head(keys)) THEN <<k>> \o keys
  ELSE <<Head(keys)>> \o InsertSorted(k, Tail(keys))

\* Object.keys(value) with no sort: the keys as they were inserted.
SortKeysNone(keys) == keys

\* Array.prototype.sort on the keys.
RECURSIVE SortKeys(_)
SortKeys(keys) ==
  IF keys = <<>> THEN <<>> ELSE InsertSorted(Head(keys), SortKeys(Tail(keys)))

\* Object.keys(value): the keys in insertion order.
ObjectKeys(obj) == [i \in 1 .. Len(obj.xs) |-> obj.xs[i].k]

HasKey(obj, k) == \E i \in 1 .. Len(obj.xs) : obj.xs[i].k = k

\* value[key] (undefined when the key is absent).
Get(obj, k) ==
  IF obj.t = "object" /\ HasKey(obj, k)
    THEN obj.xs[CHOOSE i \in 1 .. Len(obj.xs) : obj.xs[i].k = k].v
    ELSE Undefined

RECURSIVE Join(_)
Join(parts) ==
  IF parts = <<>> THEN ""
  ELSE IF Len(parts) = 1 THEN Head(parts)
  ELSE Head(parts) \o "," \o Join(Tail(parts))

\* utils.ts stableStringify.
RECURSIVE stableStringify(_)
stableStringify(value) ==
  IF value.t \notin {"object", "array"} THEN JSONstringifyScalar(value)
  ELSE IF value.t = "array"
    THEN "[" \o Join([i \in 1 .. Len(value.xs) |-> stableStringify(value.xs[i])]) \o "]"
    ELSE LET keys == SortKeys(ObjectKeys(value))
             entries == [i \in 1 .. Len(keys) |->
                           Quote(keys[i]) \o ":" \o stableStringify(Get(value, keys[i]))]
         IN "{" \o Join(entries) \o "}"

\* keccak256 over the UTF-8 bytes of a string: a 32-byte digest, one per preimage.
keccak256(text) == [len |-> Bytes32, pre |-> text]

\* utils.ts computeRunHash.
computeRunHash(payload) == keccak256(stableStringify(payload))

\* utils.ts ensureBytes32: [ok, value].
ensureBytes32(value) ==
  IF value.len # Bytes32
    THEN [ok |-> FALSE, value |-> value]
    ELSE [ok |-> TRUE, value |-> value]

Max0(n) == IF n < 0 THEN 0 ELSE n

\* Number.isFinite on a value of typeof "number".
IsFiniteNumber(v) == v.t = "number" /\ v.s # "Infinity"

\* Math.floor of a finite number.
floor(v) == v.n

\* acc + x in double arithmetic, for x >= 0: a sum beyond the largest finite
\* double is Infinity.
DoubleAdd(acc, x) ==
  IF ~IsFiniteNumber(acc) \/ acc.n + x > MaxDouble THEN Infinite ELSE Num(acc.n + x)

\* BigInt(number): [ok, value]; ok = FALSE is the RangeError thrown for a
\* number that is not an integer.
BigInt(v) ==
  IF IsFiniteNumber(v) /\ v.s = ""
    THEN [ok |-> TRUE, value |-> v.n]
    ELSE [ok |-> FALSE, value |-> NoUint]

\* events.reduce(..., acc): the elements taken from the left.
RECURSIVE SumEvents(_, _)
SumEvents(events, acc) ==
  IF events = <<>> THEN acc
  ELSE LET ev == Head(events)
           val == Get(ev, "value")
       IN SumEvents(Tail(events),
                    IF ev.t = "object" /\ IsFiniteNumber(val)
                      THEN DoubleAdd(acc, Max0(floor(val)))
                      ELSE acc)

\* utils.ts computeExtractionValue: [ok, value]; ok = FALSE is the RangeError
\* of BigInt.
computeExtractionValue(payload) ==
  IF payload.t # "object" THEN [ok |-> TRUE, value |-> 0]
  ELSE IF IsFiniteNumber(Get(payload, "score"))
    THEN BigInt(Num(Max0(floor(Get(payload, "score")))))
  ELSE IF IsFiniteNumber(Get(payload, "extractionValue"))
    THEN BigInt(Num(Max0(floor(Get(payload, "extractionValue")))))
  ELSE IF Get(payload, "events").t = "array"
    THEN BigInt(SumEvents(Get(payload, "events").xs, Num(0)))
  ELSE [ok |-> TRUE, value |-> 0]

(***************************************************************************)
(* Text forms that cross the store boundary.                               *)
(***************************************************************************)
\* Date.prototype.toISOString and Date.parse, at millisecond precision.
toISOString(t) == "T" \o ToString(t)
DateParse(text) == CHOOSE t \in Time : toISOString(t) = text
NoText == ""

\* The 0x-prefixed hex text of a digest, as it is signed and returned.
HashText(h) == "0x" \o ToString(h.len) \o ":" \o h.pre
NoHash == [len |-> 0, pre |-> ""]

(***************************************************************************)
(* The deployment: deps of registerApiRoutes, and the store initDb gives.  *)
(***************************************************************************)
Deployments ==
  [faucetSigner : BOOLEAN, usdtAddress : BOOLEAN, methAddress : BOOLEAN,
   neonIdentityAddress : BOOLEAN, store : {"sqlite", "memory"}]

Tokens == {"USDT", "METH"}
IPs == {"ip1"}

RateKeys ==
  {<<"sign-identity", w>> : w \in WalletText}
    \cup {<<"sign-game", w>> : w \in WalletText}
    \cup {<<"faucet-ip", ip>> : ip \in IPs}

\* Rows of the tables of db.ts initDb; an absent row is the No... value.
NoUser ==
  [present |-> FALSE, commitment |-> NoText, verified |-> 0,
   last_verification_request_at |-> NoText, created_at |-> NoText, updated_at |-> NoText]
NoRun ==
  [present |-> FALSE, run_hash |-> NoText, wallet |-> NoText, extraction_value |-> NoText,
   identity_commitment |-> NoText, status |-> NoText, created_at |-> NoText]
NoClaim == [present |-> FALSE, last_claim_at |-> NoText]
NoCounter == [present |-> FALSE, window_start |-> 0, count |-> 0]

VARIABLES
  deps,          \* the deployment
  now,           \* Date.now()
  users,         \* table users, by wallet text
  runs,          \* table runs, by run_hash text
  rawRuns,       \* table raw_runs, in insertion order
  faucetClaims,  \* table faucet_claims, by <<wallet, token>>
  rateLimits,    \* table rate_limits, by key
  mintLog,       \* per <<wallet, token>>: times of the last two mint calls
  pc,            \* per request slot: the await its handler is suspended at
  loc,           \* per request slot: the handler's local variables
  last,          \* the request that ended last: its locals, its response and
                 \* the audit_logs rows it appended
  admitted,      \* per rate-limit key: checks admitted since window_start was stored
  issued,        \* per run hash: the rows inserted by the requests answered 200
  rlLast,        \* the latest direct call of checkRateLimit and its result, and
                 \* per key the times of the direct calls admitted so far and
                 \* the time now + retryAfterMs of its rejections: retryAt of
                 \* the latest one until a call is made at or after it (due
                 \* is its value when the latest call was made), retryAtEver
                 \* the earliest ever
  fnLast         \* the latest direct call of a function of utils.ts: its
                 \* arguments and what it returned

NoCall == [fn |-> "", args |-> <<>>, out |-> <<>>]

vars ==
  <<deps, now, users, runs, rawRuns, faucetClaims, rateLimits, mintLog,
    pc, loc, last, admitted, issued, rlLast, fnLast>>

(***************************************************************************)
(* rateLimit.ts                                                            *)
(***************************************************************************)
NoRetry == 0 - 1

\* A limiter that tests count > maxRequests: it admits one request too many.
checkRateLimitOffByOne(rl, key, maxRequests, windowMs, t) ==
  LET row == rl[key] IN
  IF ~row.present \/ t - row.window_start >= windowMs
    THEN [table |-> [rl EXCEPT ![key] = [present |-> TRUE, window_start |-> t, count |-> 1]],
          allowed |-> TRUE, retryAfterMs |-> NoRetry, row |-> row]
    ELSE IF row.count > maxRequests
      THEN [table |-> rl, allowed |-> FALSE,
            retryAfterMs |-> windowMs - (t - row.window_start), row |-> row]
      ELSE [table |-> [rl EXCEPT ![key].count = row.count + 1],
            allowed |-> TRUE, retryAfterMs |-> NoRetry, row |-> row]

\* A limiter whose UPDATE writes back the count it read: the increment is lost.
checkRateLimitLostUpdate(rl, key, maxRequests, windowMs, t) ==
  LET row == rl[key] IN
  IF ~row.present \/ t - row.window_start >= windowMs
    THEN [table |-> [rl EXCEPT ![key] = [present |-> TRUE, window_start |-> t, count |-> 1]],
          allowed |-> TRUE, retryAfterMs |-> NoRetry, row |-> row]
    ELSE IF row.count >= maxRequests
      THEN [table |-> rl, allowed |-> FALSE,
            retryAfterMs |-> windowMs - (t - row.window_start), row |-> row]
      ELSE [table |-> [rl EXCEPT ![key].count = row.count],
            allowed |-> TRUE, retryAfterMs |-> NoRetry, row |-> row]

\* A limiter that opens a new window one millisecond early.
checkRateLimitEarlyReset(rl, key, maxRequests, windowMs, t) ==
  LET row == rl[key] IN
  IF ~row.present \/ t - row.window_start >= windowMs - 1
    THEN [table |-> [rl EXCEPT ![key] = [present |-> TRUE, window_start |-> t, count |-> 1]],
          allowed |-> TRUE, retryAfterMs |-> NoRetry, row |-> row]
    ELSE IF row.count >= maxRequests
      THEN [table |-> rl, allowed |-> FALSE,
            retryAfterMs |-> windowMs - (t - row.window_start), row |-> row]
      ELSE [table |-> [rl EXCEPT ![key].count = row.count + 1],
            allowed |-> TRUE, retryAfterMs |-> NoRetry, row |-> row]

\* A limiter that reports the time elapsed in the window as retryAfterMs.
checkRateLimitRetryElapsed(rl, key, maxRequests, windowMs, t) ==
  LET row == rl[key] IN
  IF ~row.present \/ t - row.window_start >= windowMs
    THEN [table |-> [rl EXCEPT ![key] = [present |-> TRUE, window_start |-> t, count |-> 1]],
          allowed |-> TRUE, retryAfterMs |-> NoRetry, row |-> row]
    ELSE IF row.count >= maxRequests
      THEN [table |-> rl, allowed |-> FALSE,
            retryAfterMs |-> t - row.window_start, row |-> row]
      ELSE [table |-> [rl EXCEPT ![key].count = row.count + 1],
            allowed |-> TRUE, retryAfterMs |-> NoRetry, row |-> row]

\* A limiter that counts the requests it rejects.
checkRateLimitCountRejected(rl, key, maxRequests, windowMs, t) ==
  LET row == rl[key] IN
  IF ~row.present \/ t - row.window_start >= windowMs
    THEN [table |-> [rl EXCEPT ![key] = [present |-> TRUE, window_start |-> t, count |-> 1]],
          allowed |-> TRUE, retryAfterMs |-> NoRetry, row |-> row]
    ELSE [table |-> [rl EXCEPT ![key].count = row.count + 1],
          allowed |-> row.count < maxRequests,
          retryAfterMs |-> IF row.count >= maxRequests
                             THEN windowMs - (t - row.window_start) ELSE NoRetry,
          row |-> row]

\* checkRateLimit(db, key, maxRequests, windowMs) at time t on table rl:
\* the table it leaves, the RateLimitResult, and the row it read.
checkRateLimit(rl, key, maxRequests, windowMs, t) ==
  LET row == rl[key] IN
  IF ~row.present \/ t - row.window_start >= windowMs
    THEN [table |-> [rl EXCEPT ![key] = [present |-> TRUE, window_start |-> t, count |-> 1]],
          allowed |-> TRUE, retryAfterMs |-> NoRetry, row |-> row]
    ELSE IF row.count >= maxRequests
      THEN [table |-> rl, allowed |-> FALSE,
            retryAfterMs |-> windowMs - (t - row.window_start), row |-> row]
      ELSE [table |-> [rl EXCEPT ![key].count = row.count + 1],
            allowed |-> TRUE, retryAfterMs |-> NoRetry, row |-> row]

\* The admitted-checks count kept beside the table: it restarts when the call
\* stored a new window_start, and grows with every other admitted call.
Admit(adm, key, r, t) ==
  IF ~r.allowed THEN adm
  ELSE IF ~r.row.present \/ r.table[key].window_start # r.row.window_start
    THEN [adm EXCEPT ![key] = 1]
    ELSE [adm EXCEPT ![key] = @ + 1]

(***************************************************************************)
(* Request bodies.                                                         *)
(***************************************************************************)
PayloadA == Obj(<<KV("wallet", Str("0xAa")), KV("score", Num(5))>>)
PayloadA2 == Obj(<<KV("score", Num(5)), KV("wallet", Str("0xAa"))>>)
PayloadB == Obj(<<KV("events", Arr(<<Obj(<<KV("value", Num(9))>>)>>))>>)

HashA == computeRunHash(PayloadA)
ShortHash == [len |-> 31, pre |-> "short"]
RunHashKeys == {HashA}

IdentityBody(w, c) == [wallet |-> w, commitment |-> c]
IdentityBodies ==
  {IdentityBody(w, c) : w \in {"0xaa", "0xAa"}, c \in {U(7), U(8)}}
    \cup {IdentityBody(NotAnAddress, U(7)), IdentityBody("0xaa", Negative)}

RunBody(w, h, ev, ic, raw) ==
  [wallet |-> w, runHash |-> h, extractionValue |-> ev, identityCommitment |-> ic,
   raw |-> raw]
RunBodies ==
  {RunBody(w, HashA, ev, U(7), raw) :
     w \in {"0xaa", "0xBb"}, ev \in {U(5), U(9)}, raw \in {Undefined, PayloadA2, PayloadB}}
    \cup {RunBody(NotAnAddress, HashA, U(5), U(7), Undefined),
          RunBody("0xaa", ShortHash, U(5), U(7), Undefined),
          RunBody("0xaa", HashA, TooBig, U(7), Undefined),
          RunBody("0xaa", HashA, U(5), NotANumber, Undefined)}

FaucetBody(w, token, ip) == [wallet |-> w, token |-> token, ip |-> ip]
FaucetBodies ==
  {FaucetBody(w, token, "ip1") : w \in {"0xaa"}, token \in {"undefined", "METH"}}
    \cup {FaucetBody(NotAnAddress, "USDT", "ip1")}

RawRunBodies ==
  {Obj(<<KV("wallet", Str(w)), KV("score", Num(5))>>) : w \in {"0xaa", "0xAa", NotAnAddress}}
    \cup {Obj(<<KV("score", Num(5)), KV("wallet", Str("0xaa"))>>),
          Obj(<<KV("wallet", Str("0xbb")), KV("sessionId", Str("s1")),
                KV("events", Arr(<<Obj(<<KV("value", Num(9))>>)>>))>>)}

(***************************************************************************)
(* Signing.  signTypedData is a function of the domain, the type and the   *)
(* message; the signature is modelled by what it signs.                    *)
(***************************************************************************)
Field(name, type, value) == [name |-> name, type |-> type, value |-> value]

\* api.ts eip712Domain.
eip712Domain(chainId, verifyingContract) ==
  [name |-> "ECDSAVerifier", version |-> "1", chainId |-> chainId,
   verifyingContract |-> verifyingContract]

NoSig == [domain |-> eip712Domain("", ""), primaryType |-> "", message |-> <<>>]

\* api.ts identityTypes, filled with the message of sign-identity.
identityTypes(commitment, wallet) ==
  <<Field("commitment", "uint256", ToString(commitment)),
    Field("wallet", "address", wallet)>>

\* api.ts runTypes, filled with the message of sign-game-run.
runTypes(runHash, extractionValue, identityCommitment, player) ==
  <<Field("runHash", "bytes32", HashText(runHash)),
    Field("extractionValue", "uint256", ToString(extractionValue)),
    Field("identityCommitment", "uint256", ToString(identityCommitment)),
    Field("player", "address", player)>>

signTypedData(primaryType, message) ==
  [domain |-> eip712Domain("deps.chainId", "deps.ecdsaVerifierAddress"),
   primaryType |-> primaryType, message |-> message]

(***************************************************************************)
(* Responses, audit rows, handler locals.                                  *)
(***************************************************************************)
NoRes ==
  [status |-> 0, error |-> "", signature |-> NoSig, runHash |-> NoText,
   extractionValue |-> NoText, identityCommitment |-> NoText]
Reply(status, error) == [NoRes EXCEPT !.status = status, !.error = error]
ReplySigned(signature) == [NoRes EXCEPT !.status = 200, !.signature = signature]

\* db.ts logAudit: the row appended to audit_logs (created_at left out).
logAudit(eventType, wallet, details, success) ==
  [event_type |-> eventType, wallet |-> wallet, details |-> details,
   success |-> IF success THEN 1 ELSE 0]

NoLoc ==
  [route |-> "", wallet |-> NullWallet, valid |-> FALSE, admitted |-> FALSE,
   commitment |-> NoUint, runHash |-> NoHash, extractionValue |-> NoUint,
   token |-> "", ip |-> "", existing |-> FALSE, row |-> NoRun, minted |-> FALSE]

NoLast == [loc |-> NoLoc, res |-> NoRes, audit |-> <<>>]

Free(p) == pc[p] = "idle"

TypeOK ==
  /\ deps \in Deployments
  /\ now \in Time
  /\ pc \in [Req -> {"idle", "si_sign", "gr_oracle", "gr_sign", "fc_mint", "fc_wait",
                     "fc_balance"}]
  /\ Len(last.audit) <= 1
  /\ Len(rawRuns) <= MaxRawRuns

\* The store as initDb leaves it, and no request in progress.
Boot ==
  /\ deps \in Deployments
  /\ now = 0
  /\ users = [w \in WalletText |-> NoUser]
  /\ runs = [h \in RunHashKeys |-> NoRun]
  /\ rawRuns = <<>>
  /\ faucetClaims = [k \in WalletText \X Tokens |-> NoClaim]
  /\ rateLimits = [k \in RateKeys |-> NoCounter]
  /\ mintLog = [k \in WalletText \X Tokens |-> <<>>]
  /\ pc = [p \in Req |-> "idle"]
  /\ loc = [p \in Req |-> NoLoc]
  /\ last = NoLast
  /\ admitted = [k \in RateKeys |-> 0]
  /\ issued = [h \in RunHashKeys |-> <<>>]
  /\ rlLast = [key |-> <<"", "">>, at |-> NoTime, allowed |-> FALSE,
               retryAfterMs |-> NoRetry, row |-> NoCounter,
               log |-> [k \in RateKeys |-> <<>>],
               retryAt |-> [k \in RateKeys |-> NoTime],
               retryAtEver |-> [k \in RateKeys |-> NoTime],
               due |-> NoTime]

Init == Boot /\ fnLast = NoCall

\* The handler of slot p ends: it sends response r, having appended rows to
\* audit_logs.
Finish(p, l, r, rows) ==
  /\ pc' = [pc EXCEPT ![p] = "idle"]
  /\ loc' = [loc EXCEPT ![p] = NoLoc]
  /\ last' = [loc |-> l, res |-> r, audit |-> rows]

\* The handler of slot p suspends at an await.
Suspend(p, l, at) ==
  /\ pc' = [pc EXCEPT ![p] = at]
  /\ loc' = [loc EXCEPT ![p] = l]
  /\ last' = last

\* The catch block of a handler: one failure row, then 400 invalid_request.
Catch(p, l, eventType, message) ==
  Finish(p, l, Reply(400, "invalid_request"),
         <<logAudit(eventType, l.wallet, message, FALSE)>>)

Tick ==
  /\ now < MaxTime
  /\ now' = now + 1
  /\ UNCHANGED <<deps, users, runs, rawRuns, faucetClaims, rateLimits, mintLog,
                 pc, loc, last, admitted, issued, rlLast, fnLast>>

\* An upsert that stores the row as verified.
upsertUserVerifying(table, wallet, commitment, t) ==
  [table EXCEPT ![wallet] =
     [present |-> TRUE, commitment |-> commitment, verified |-> 1,
      last_verification_request_at |-> toISOString(t),
      created_at |-> IF @.present THEN @.created_at ELSE toISOString(t),
      updated_at |-> toISOString(t)]]

(***************************************************************************)
(* POST /sign-identity                                                     *)
(***************************************************************************)
\* INSERT INTO users ... ON CONFLICT(wallet) DO UPDATE (both stores agree).
upsertUser(table, wallet, commitment, t) ==
  [table EXCEPT ![wallet] =
     [present |-> TRUE, commitment |-> commitment, verified |-> @.verified,
      last_verification_request_at |-> toISOString(t),
      created_at |-> IF @.present THEN @.created_at ELSE toISOString(t),
      updated_at |-> toISOString(t)]]

\* A handler without the test of the verified flag.
alreadyVerifiedNever(existing) == FALSE

\* A handler without the commitment check.
commitmentMismatchNever(existing, commitment) == FALSE

\* The two checks of the row read from users.
alreadyVerified(existing) == existing.present /\ existing.verified = 1
commitmentMismatch(existing, commitment) ==
  existing.present /\ existing.commitment # ToString(commitment)

\* From the start of the handler to its await of signTypedData.
SignIdentity(p, body) ==
  /\ Free(p)
  /\ LET w == normalizeAddress(body.wallet)
         c == parseUint256(body.commitment)
         l0 == [NoLoc EXCEPT !.route = "sign-identity", !.wallet = w.value]
     IN IF ~w.ok
          THEN /\ Catch(p, l0, "sign_identity", "Invalid wallet address")
               /\ UNCHANGED <<users, rateLimits, admitted>>
        ELSE IF ~c.ok
          THEN /\ Catch(p, l0, "sign_identity", "Invalid uint256")
               /\ UNCHANGED <<users, rateLimits, admitted>>
        ELSE
          LET key == <<"sign-identity", w.value>>
              rateResult ==
                checkRateLimit(rateLimits, key, SignIdentityLimit, SignIdentityWindowMs, now)
              existing == users[w.value]
              l1 == [found |-> existing] @@
                      [l0 EXCEPT !.valid = TRUE, !.commitment = c.value,
                                 !.admitted = rateResult.allowed,
                                 !.existing = existing.present]
          IN /\ rateLimits' = rateResult.table
             /\ admitted' = Admit(admitted, key, rateResult, now)
             /\ IF ~rateResult.allowed
                  THEN /\ Finish(p, l1, Reply(429, "rate_limited"), <<>>)
                       /\ users' = users
                ELSE IF alreadyVerified(existing)
                  THEN /\ Finish(p, l1, Reply(409, "already_verified"), <<>>)
                       /\ users' = users
                ELSE IF commitmentMismatch(existing, c.value)
                  THEN /\ Finish(p, l1, Reply(400, "commitment_mismatch"), <<>>)
                       /\ users' = users
                ELSE /\ users' = upsertUser(users, w.value, ToString(c.value), now)
                     /\ Suspend(p, l1, "si_sign")
  /\ UNCHANGED <<deps, now, runs, rawRuns, faucetClaims, mintLog, issued, rlLast, fnLast>>

\* signTypedData settles: the signature, or a rejection caught by the handler.
SignIdentityResume(p, signed) ==
  /\ pc[p] = "si_sign"
  /\ IF signed
       THEN Finish(p, loc[p],
                   ReplySigned(signTypedData("IdentityRegistration",
                                 identityTypes(loc[p].commitment, loc[p].wallet))),
                   <<logAudit("sign_identity", loc[p].wallet,
                              ToString(loc[p].commitment), TRUE)>>)
       ELSE Catch(p, loc[p], "sign_identity", "signTypedData rejected")
  /\ UNCHANGED <<deps, now, users, runs, rawRuns, faucetClaims, rateLimits, mintLog,
                 admitted, issued, rlLast, fnLast>>

\* The process outside the service that marks an identity verified.
ExternalVerify(w) ==
  /\ users[w].present /\ users[w].verified = 0
  /\ users' = [users EXCEPT ![w].verified = 1]
  /\ UNCHANGED <<deps, now, runs, rawRuns, faucetClaims, rateLimits, mintLog,
                 pc, loc, last, admitted, issued, rlLast, fnLast>>

(***************************************************************************)
(* POST /sign-game-run                                                     *)
(***************************************************************************)
\* A handler without the duplicate check.
existingRunNever(table, runHash) == FALSE

\* SELECT run_hash FROM runs WHERE run_hash = ?
existingRun(table, runHash) == table[runHash].present

\* INSERT INTO runs: run_hash is the PRIMARY KEY of the SQLite table, whose
\* insert throws on a second row; the in-memory store is a Map and sets.
insertRun(store, table, runHash, row) ==
  IF store = "sqlite" /\ table[runHash].present
    THEN [ok |-> FALSE, table |-> table]
    ELSE [ok |-> TRUE, table |-> [table EXCEPT ![runHash] = row]]

\* A row whose extraction_value and identity_commitment are exchanged.
RunRowExchanged(runHash, wallet, extractionValue, identityCommitment, t) ==
  [present |-> TRUE, run_hash |-> HashText(runHash), wallet |-> wallet,
   extraction_value |-> ToString(identityCommitment),
   identity_commitment |-> ToString(extractionValue),
   status |-> "signed", created_at |-> toISOString(t)]

\* The row of INSERT INTO runs.
RunRow(runHash, wallet, extractionValue, identityCommitment, t) ==
  [present |-> TRUE, run_hash |-> HashText(runHash), wallet |-> wallet,
   extraction_value |-> ToString(extractionValue),
   identity_commitment |-> ToString(identityCommitment),
   status |-> "signed", created_at |-> toISOString(t)]

\* if (payload.raw): undefined, null, 0 and "" are falsy.
Truthy(v) ==
  /\ v.t \notin {"undefined", "null"}
  /\ ~(v.t = "number" /\ v.n = 0 /\ v.s = "")
  /\ ~(v.t = "string" /\ v.s = "")

\* A check of the raw payload that compares the hash alone.
rawMismatchHashOnly(raw, runHash, extractionValue) ==
  IF ~Truthy(raw) THEN ""
  ELSE IF computeRunHash(raw) # runHash THEN "run_hash_mismatch"
  ELSE ""

\* The check of a supplied raw payload: "" when it passes, "invalid_request"
\* when computeExtractionValue throws.
rawMismatch(raw, runHash, extractionValue) ==
  IF ~Truthy(raw) THEN ""
  ELSE IF ~computeExtractionValue(raw).ok THEN "invalid_request"
  ELSE IF computeRunHash(raw) # runHash THEN "run_hash_mismatch"
  ELSE IF computeExtractionValue(raw).value # extractionValue
    THEN "extraction_value_mismatch"
  ELSE ""

\* From the start of the handler to its await of isIdentityVerified.
SignGameRun(p, body) ==
  /\ Free(p)
  /\ LET w == normalizeAddress(body.wallet)
         h == ensureBytes32(body.runHash)
         ev == parseUint256(body.extractionValue)
         ic == parseUint256(body.identityCommitment)
         l0 == [NoLoc EXCEPT !.route = "sign-game-run", !.wallet = w.value]
     IN IF ~w.ok
          THEN /\ Catch(p, l0, "sign_game_run", "Invalid wallet address")
               /\ UNCHANGED <<rateLimits, admitted>>
        ELSE IF ~h.ok
          THEN /\ Catch(p, l0, "sign_game_run", "Invalid bytes32")
               /\ UNCHANGED <<rateLimits, admitted>>
        ELSE IF ~ev.ok \/ ~ic.ok
          THEN /\ Catch(p, l0, "sign_game_run", "Invalid uint256")
               /\ UNCHANGED <<rateLimits, admitted>>
        ELSE
          LET key == <<"sign-game", w.value>>
              rateResult ==
                checkRateLimit(rateLimits, key, SignGameLimit, SignGameWindowMs, now)
              l1 == [l0 EXCEPT !.valid = TRUE, !.runHash = h.value,
                               !.extractionValue = ev.value, !.commitment = ic.value,
                               !.admitted = rateResult.allowed,
                               !.existing = existingRun(runs, h.value)]
              mismatch == rawMismatch(body.raw, h.value, ev.value)
          IN /\ rateLimits' = rateResult.table
             /\ admitted' = Admit(admitted, key, rateResult, now)
             /\ IF ~rateResult.allowed
                  THEN Finish(p, l1, Reply(429, "rate_limited"), <<>>)
                ELSE IF existingRun(runs, h.value)
                  THEN Finish(p, l1, Reply(409, "duplicate_run"), <<>>)
                ELSE IF mismatch = "invalid_request"
                  THEN Catch(p, l1, "sign_game_run", "not an integer")
                ELSE IF mismatch # ""
                  THEN Finish(p, l1, Reply(400, mismatch), <<>>)
                ELSE Suspend(p, l1, "gr_oracle")
  /\ UNCHANGED <<deps, now, users, runs, rawRuns, faucetClaims, mintLog, issued, rlLast, fnLast>>

\* api.ts isIdentityVerified: what the await can give under the deployment.
OracleAnswers(d) ==
  IF ~d.neonIdentityAddress THEN {"null"} ELSE {"true", "false", "throw"}

\* A handler that tests !verified: the null of an unconfigured oracle blocks too.
OracleReturnFalsy(p, verified) ==
  /\ pc[p] = "gr_oracle"
  /\ verified \in OracleAnswers(deps)
  /\ IF verified \in {"false", "null"}
       THEN Finish(p, loc[p], Reply(403, "identity_not_verified"), <<>>)
     ELSE IF verified = "throw"
       THEN Catch(p, loc[p], "sign_game_run", "isVerified call failed")
     ELSE Suspend(p, loc[p], "gr_sign")
  /\ UNCHANGED <<deps, now, users, runs, rawRuns, faucetClaims, rateLimits, mintLog,
                 admitted, issued, rlLast, fnLast>>

\* isIdentityVerified settles; the handler goes on to its await of signTypedData.
OracleReturn(p, verified) ==
  /\ pc[p] = "gr_oracle"
  /\ verified \in OracleAnswers(deps)
  /\ IF verified = "false"
       THEN Finish(p, loc[p], Reply(403, "identity_not_verified"), <<>>)
     ELSE IF verified = "throw"
       THEN Catch(p, loc[p], "sign_game_run", "isVerified call failed")
     ELSE Suspend(p, loc[p], "gr_sign")
  /\ UNCHANGED <<deps, now, users, runs, rawRuns, faucetClaims, rateLimits, mintLog,
                 admitted, issued, rlLast, fnLast>>

\* signTypedData settles; the handler inserts the run, audits and answers.
SignGameRunResume(p, signed) ==
  /\ pc[p] = "gr_sign"
  /\ LET l == loc[p]
         row == RunRow(l.runHash, l.wallet, l.extractionValue, l.commitment, now)
         ins == insertRun(deps.store, runs, l.runHash, row)
         signature ==
           signTypedData("GameRunSubmission",
                         runTypes(l.runHash, l.extractionValue, l.commitment, l.wallet))
     IN IF ~signed
          THEN /\ Catch(p, l, "sign_game_run", "signTypedData rejected")
               /\ UNCHANGED <<runs, issued>>
        ELSE IF ~ins.ok
          THEN /\ Catch(p, l, "sign_game_run", "UNIQUE constraint failed: runs.run_hash")
               /\ UNCHANGED <<runs, issued>>
        ELSE /\ runs' = ins.table
             /\ issued' = [issued EXCEPT ![l.runHash] = Append(@, row)]
             /\ Finish(p, [l EXCEPT !.row = row],
                       [ReplySigned(signature) EXCEPT
                          !.runHash = HashText(l.runHash),
                          !.extractionValue = ToString(l.extractionValue),
                          !.identityCommitment = ToString(l.commitment)],
                       <<logAudit("sign_game_run", l.wallet, HashText(l.runHash), TRUE)>>)
  /\ UNCHANGED <<deps, now, users, rawRuns, faucetClaims, rateLimits, mintLog,
                 admitted, rlLast, fnLast>>

(***************************************************************************)
(* POST /game/run/raw                                                      *)
(***************************************************************************)
\* JSON.stringify of a value: object entries in insertion order.
RECURSIVE JSONstringify(_)
JSONstringify(value) ==
  IF value.t \notin {"object", "array"} THEN JSONstringifyScalar(value)
  ELSE IF value.t = "array"
    THEN "[" \o Join([i \in 1 .. Len(value.xs) |-> JSONstringify(value.xs[i])]) \o "]"
    ELSE "{" \o Join([i \in 1 .. Len(value.xs) |->
                        Quote(value.xs[i].k) \o ":" \o JSONstringify(value.xs[i].v)]) \o "}"

\* api.ts rawRunSchema.parse: the declared keys the body has, in the order
\* of the schema; any other key is stripped.
rawRunShape == <<"wallet", "sessionId", "events", "score">>
rawRunSchemaParse(body) ==
  LET present == SelectSeq(rawRunShape, LAMBDA k : HasKey(body, k))
  IN Obj([i \in 1 .. Len(present) |-> KV(present[i], Get(body, present[i]))])

\* { ...payload, wallet }: the wallet entry keeps its place and takes the new value.
withWallet(payload, wallet) ==
  Obj([i \in 1 .. Len(payload.xs) |->
         IF payload.xs[i].k = "wallet" THEN KV("wallet", Str(wallet)) ELSE payload.xs[i]])

\* A handler that skips the insert when raw_runs has a record of the run hash.
RawRunDedup(p, body) ==
  /\ Free(p)
  /\ Len(rawRuns) < MaxRawRuns
  /\ LET payload == rawRunSchemaParse(body)
         w == normalizeAddress(Get(payload, "wallet").s)
         l0 == [NoLoc EXCEPT !.route = "raw-run", !.wallet = w.value]
     IN IF ~w.ok
          THEN /\ Finish(p, l0, Reply(400, "invalid_request"), <<>>)
               /\ rawRuns' = rawRuns
          ELSE LET runPayload == withWallet(payload, w.value)
                   runHash == computeRunHash(runPayload)
                   computed == computeExtractionValue(runPayload)
                   extractionValue == computed.value
               IN IF ~computed.ok
                    THEN /\ Finish(p, l0, Reply(400, "invalid_request"), <<>>)
                         /\ rawRuns' = rawRuns
                    ELSE
                  /\ rawRuns' =
                       IF \E i \in 1 .. Len(rawRuns) : rawRuns[i].run_hash = HashText(runHash)
                         THEN rawRuns
                         ELSE Append(rawRuns,
                                [wallet |-> w.value,
                                 session_id |-> Get(payload, "sessionId").s,
                                 run_hash |-> HashText(runHash),
                                 extraction_value |-> ToString(extractionValue),
                                 status |-> "valid",
                                 payload |-> JSONstringify(runPayload),
                                 created_at |-> toISOString(now)])
                  /\ Finish(p, [l0 EXCEPT !.valid = TRUE, !.runHash = runHash,
                                          !.extractionValue = extractionValue],
                            [Reply(200, "") EXCEPT
                               !.runHash = HashText(runHash),
                               !.extractionValue = ToString(extractionValue)],
                            <<>>)
  /\ UNCHANGED <<deps, now, users, runs, faucetClaims, rateLimits, mintLog,
                 admitted, issued, rlLast, fnLast>>

\* The whole handler: it has no await.
RawRun(p, body) ==
  /\ Free(p)
  /\ Len(rawRuns) < MaxRawRuns
  /\ LET payload == rawRunSchemaParse(body)
         w == normalizeAddress(Get(payload, "wallet").s)
         l0 == [NoLoc EXCEPT !.route = "raw-run", !.wallet = w.value]
     IN IF ~w.ok
          THEN /\ Finish(p, l0, Reply(400, "invalid_request"), <<>>)
               /\ rawRuns' = rawRuns
          ELSE LET runPayload == withWallet(payload, w.value)
                   runHash == computeRunHash(runPayload)
                   computed == computeExtractionValue(runPayload)
                   extractionValue == computed.value
               IN IF ~computed.ok
                    THEN /\ Finish(p, l0, Reply(400, "invalid_request"), <<>>)
                         /\ rawRuns' = rawRuns
                    ELSE
                  /\ rawRuns' =
                       Append(rawRuns,
                              [wallet |-> w.value,
                               session_id |-> Get(payload, "sessionId").s,
                               run_hash |-> HashText(runHash),
                               extraction_value |-> ToString(extractionValue),
                               status |-> "valid",
                               payload |-> JSONstringify(runPayload),
                               created_at |-> toISOString(now)])
                  /\ Finish(p, [l0 EXCEPT !.valid = TRUE, !.runHash = runHash,
                                          !.extractionValue = extractionValue],
                            [Reply(200, "") EXCEPT
                               !.runHash = HashText(runHash),
                               !.extractionValue = ToString(extractionValue)],
                            <<>>)
  /\ UNCHANGED <<deps, now, users, runs, faucetClaims, rateLimits, mintLog,
                 admitted, issued, rlLast, fnLast>>

(***************************************************************************)
(* POST /faucet                                                            *)
(***************************************************************************)
\* payload.token ?? "USDT"
tokenOf(body) == IF body.token = "undefined" THEN "USDT" ELSE body.token

\* A lookup that gives the USDT address for every token.
tokenAddressUsdtOnly(d, token) == d.usdtAddress

\* token === "USDT" ? deps.usdtAddress : deps.methAddress
tokenAddress(d, token) == IF token = "USDT" THEN d.usdtAddress ELSE d.methAddress

\* A cooldown that still holds when exactly windowMs has elapsed.
alreadyClaimedInclusive(existing, t, windowMs) ==
  existing.present /\ t - DateParse(existing.last_claim_at) <= windowMs

\* The cooldown test on the row read from faucet_claims.
alreadyClaimed(existing, t, windowMs) ==
  existing.present /\ t - DateParse(existing.last_claim_at) < windowMs

\* An upsert that stores the time of day without the date: it wraps around.
upsertClaimTimeOfDay(table, wallet, token, t) ==
  [table EXCEPT ![<<wallet, token>>] =
     [present |-> TRUE, last_claim_at |-> toISOString(t % FaucetWindowMs)]]

\* INSERT INTO faucet_claims ... ON CONFLICT(wallet, token) DO UPDATE.
upsertClaim(table, wallet, token, t) ==
  [table EXCEPT ![<<wallet, token>>] = [present |-> TRUE, last_claim_at |-> toISOString(t)]]

\* The token contract sees one more mint call; the last two are kept.
logMint(log, wallet, token, t) ==
  [log EXCEPT ![<<wallet, token>>] =
     IF Len(@) < 2 THEN Append(@, t) ELSE <<@[2], t>>]

\* From the start of the handler to its await of tokenContract.mint, which it calls.
Faucet(p, body) ==
  /\ Free(p)
  /\ LET w == normalizeAddress(body.wallet)
         token == tokenOf(body)
         l0 == [NoLoc EXCEPT !.route = "faucet", !.wallet = w.value]
     IN IF ~deps.faucetSigner
          THEN /\ Finish(p, [l0 EXCEPT !.wallet = NullWallet],
                         Reply(500, "faucet_not_configured"), <<>>)
               /\ UNCHANGED <<rateLimits, admitted, mintLog>>
        ELSE IF ~w.ok
          THEN /\ Catch(p, l0, "faucet_mint", "Invalid wallet address")
               /\ UNCHANGED <<rateLimits, admitted, mintLog>>
        ELSE IF ~tokenAddress(deps, token)
          THEN /\ Finish(p, [l0 EXCEPT !.token = token],
                         Reply(400, "token_not_configured"), <<>>)
               /\ UNCHANGED <<rateLimits, admitted, mintLog>>
        ELSE
          LET key == <<"faucet-ip", body.ip>>
              ipLimit == checkRateLimit(rateLimits, key, FaucetIpLimit, FaucetWindowMs, now)
              existing == faucetClaims[<<w.value, token>>]
              l1 == [l0 EXCEPT !.valid = TRUE, !.token = token, !.ip = body.ip,
                               !.admitted = ipLimit.allowed,
                               !.existing = existing.present]
          IN /\ rateLimits' = ipLimit.table
             /\ admitted' = Admit(admitted, key, ipLimit, now)
             /\ IF ~ipLimit.allowed
                  THEN /\ Finish(p, l1, Reply(429, "rate_limited"), <<>>)
                       /\ mintLog' = mintLog
                ELSE IF alreadyClaimed(existing, now, FaucetWindowMs)
                  THEN /\ Finish(p, l1, Reply(429, "already_claimed"), <<>>)
                       /\ mintLog' = mintLog
                ELSE /\ mintLog' = logMint(mintLog, w.value, token, now)
                     /\ Suspend(p, l1, "fc_mint")
  /\ UNCHANGED <<deps, now, users, runs, rawRuns, faucetClaims, issued, rlLast, fnLast>>

\* tokenContract.mint settles: the transaction was sent, or the call failed.
FaucetMint(p, sent) ==
  /\ pc[p] = "fc_mint"
  /\ IF sent
       THEN Suspend(p, loc[p], "fc_wait")
       ELSE Catch(p, loc[p], "faucet_mint", "mint call failed")
  /\ UNCHANGED <<deps, now, users, runs, rawRuns, faucetClaims, rateLimits, mintLog,
                 admitted, issued, rlLast, fnLast>>

\* tx.wait settles: the mint is confirmed, or the wait failed.
FaucetWait(p, confirmed) ==
  /\ pc[p] = "fc_wait"
  /\ IF confirmed
       THEN Suspend(p, [loc[p] EXCEPT !.minted = TRUE], "fc_balance")
       ELSE Catch(p, loc[p], "faucet_mint", "transaction failed")
  /\ UNCHANGED <<deps, now, users, runs, rawRuns, faucetClaims, rateLimits, mintLog,
                 admitted, issued, rlLast, fnLast>>

\* balanceOf settles; the handler records the claim, audits and answers.
FaucetBalance(p, answered) ==
  /\ pc[p] = "fc_balance"
  /\ IF answered
       THEN /\ faucetClaims' = upsertClaim(faucetClaims, loc[p].wallet, loc[p].token, now)
            /\ Finish(p, loc[p], Reply(200, ""),
                      <<logAudit("faucet_mint", loc[p].wallet, loc[p].token, TRUE)>>)
       ELSE /\ faucetClaims' = faucetClaims
            /\ Catch(p, loc[p], "faucet_mint", "balanceOf call failed")
  /\ UNCHANGED <<deps, now, users, runs, rawRuns, rateLimits, mintLog,
                 admitted, issued, rlLast, fnLast>>

(***************************************************************************)
(* GET /user/:wallet                                                       *)
(***************************************************************************)
\* The response of the handler to req.params.wallet = text.
lookupUser(table, text) ==
  LET w == normalizeAddress(text)
      user == table[w.value]
  IN IF ~w.ok THEN Reply(400, "invalid_request")
     ELSE IF ~user.present THEN Reply(404, "not_found")
     ELSE [user |-> [wallet |-> w.value,
                     commitment |-> user.commitment,
                     verified |-> user.verified # 0,
                     lastVerificationRequestAt |-> user.last_verification_request_at,
                     createdAt |-> user.created_at,
                     updatedAt |-> user.updated_at]] @@ Reply(200, "")

\* The whole handler: it has no await and writes nothing.
GetUser(p, text) ==
  /\ Free(p)
  /\ Finish(p, [text |-> text] @@
                 [NoLoc EXCEPT !.route = "user", !.wallet = normalizeAddress(text).value],
            lookupUser(users, text), <<>>)
  /\ UNCHANGED <<deps, now, users, runs, rawRuns, faucetClaims, rateLimits, mintLog,
                 admitted, issued, rlLast, fnLast>>

(***************************************************************************)
(* A caller of checkRateLimit alone, on the key of one wallet.             *)
(***************************************************************************)
RateCheck(key, maxRequests, windowMs) ==
  /\ LET r == checkRateLimit(rateLimits, key, maxRequests, windowMs, now)
     IN /\ rateLimits' = r.table
        /\ admitted' = Admit(admitted, key, r, now)
        /\ rlLast' = [key |-> key, at |-> now, allowed |-> r.allowed,
                      retryAfterMs |-> r.retryAfterMs, row |-> r.row,
                      log |-> IF r.allowed
                                THEN [rlLast.log EXCEPT ![key] =
                                        Append(@, [at |-> now,
                                                   window |-> r.table[key].window_start])]
                                ELSE rlLast.log,
                      retryAt |->
                        [rlLast.retryAt EXCEPT ![key] =
                           IF ~r.allowed THEN now + r.retryAfterMs
                           ELSE IF @ # NoTime /\ now >= @ THEN NoTime ELSE @],
                      retryAtEver |->
                        [rlLast.retryAtEver EXCEPT ![key] =
                           IF ~r.allowed /\ (@ = NoTime \/ now + r.retryAfterMs < @)
                             THEN now + r.retryAfterMs ELSE @],
                      due |-> rlLast.retryAt[key]]
  /\ UNCHANGED <<deps, now, users, runs, rawRuns, faucetClaims, mintLog,
                 pc, loc, last, issued, fnLast>>

(***************************************************************************)
(* The service.  Spec is every route of one deployment, handled            *)
(* concurrently; the other specifications are one protocol each, and the   *)
(* ...Seq ones take a new request only when no handler is suspended.       *)
(***************************************************************************)
Quiet == \A q \in Req : Free(q)

IdentityStep ==
  \/ \E p \in Req, body \in IdentityBodies : SignIdentity(p, body)
  \/ \E p \in Req, signed \in BOOLEAN : SignIdentityResume(p, signed)
  \/ \E w \in WalletText : ExternalVerify(w)

RunStep ==
  \/ \E p \in Req, body \in RunBodies : SignGameRun(p, body)
  \/ \E p \in Req, verified \in {"null", "true", "false", "throw"} : OracleReturn(p, verified)
  \/ \E p \in Req, signed \in BOOLEAN : SignGameRunResume(p, signed)

FaucetStep ==
  \/ \E p \in Req, body \in FaucetBodies : Faucet(p, body)
  \/ \E p \in Req, sent \in BOOLEAN : FaucetMint(p, sent)
  \/ \E p \in Req, confirmed \in BOOLEAN : FaucetWait(p, confirmed)
  \/ \E p \in Req, answered \in BOOLEAN : FaucetBalance(p, answered)

RawStep == \E p \in Req, body \in RawRunBodies : RawRun(p, body)

Next == Tick \/ IdentityStep \/ RawStep \/ RunStep \/ FaucetStep
Spec == Init /\ [][Next]_vars

NoFaucet(d) == ~d.faucetSigner /\ ~d.usdtAddress /\ ~d.methAddress
OnlyFaucet(d) ==
  /\ ~d.neonIdentityAddress /\ d.store = "sqlite"
  /\ d.faucetSigner \/ (d.usdtAddress /\ d.methAddress)
  /\ d.usdtAddress
Plain(d) == NoFaucet(d) /\ ~d.neonIdentityAddress /\ d.store = "sqlite"

\* sign-game-run alone; in SpecRun the requests are concurrent and the clock
\* stands, so that all of them fall in one rate-limit window.
InitRun == Init /\ NoFaucet(deps)
NextRun == RunStep
SpecRun == InitRun /\ [][NextRun]_vars

NextRunSeq ==
  \/ Tick
  \/ \E p \in Req, body \in RunBodies : Quiet /\ SignGameRun(p, body)
  \/ \E p \in Req, verified \in {"null", "true", "false", "throw"} : OracleReturn(p, verified)
  \/ \E p \in Req, signed \in BOOLEAN : SignGameRunResume(p, signed)
SpecRunSeq == InitRun /\ [][NextRunSeq]_vars

\* The same, one at a time, on the SQLite store with no oracle configured.
InitRunPlain == Init /\ Plain(deps)
SpecRunPlain == InitRunPlain /\ [][NextRunSeq]_vars

\* Raw derivation beside sign-game-run, one request at a time, the clock standing.
NextRaw ==
  \/ \E p \in Req, body \in RawRunBodies : Quiet /\ RawRun(p, body)
  \/ \E p \in Req, body \in RunBodies : Quiet /\ SignGameRun(p, body)
  \/ \E p \in Req, verified \in {"null", "true", "false", "throw"} : OracleReturn(p, verified)
  \/ \E p \in Req, signed \in BOOLEAN : SignGameRunResume(p, signed)
SpecRaw == InitRunPlain /\ [][NextRaw]_vars

\* sign-identity alone.
InitIdentity == Init /\ Plain(deps)
NextIdentity == Tick \/ IdentityStep
SpecIdentity == InitIdentity /\ [][NextIdentity]_vars

\* The same, one request at a time.
NextIdentitySeq ==
  \/ Tick
  \/ \E p \in Req, body \in IdentityBodies : Quiet /\ SignIdentity(p, body)
  \/ \E p \in Req, signed \in BOOLEAN : SignIdentityResume(p, signed)
  \/ \E w \in WalletText : ExternalVerify(w)
SpecIdentitySeq == InitIdentity /\ [][NextIdentitySeq]_vars

\* faucet alone; in SpecFaucet the requests are concurrent and the clock stands.
InitFaucet == Init /\ OnlyFaucet(deps)
NextFaucet == FaucetStep
SpecFaucet == InitFaucet /\ [][NextFaucet]_vars

NextFaucetSeq ==
  \/ Tick
  \/ \E p \in Req, body \in FaucetBodies : Quiet /\ Faucet(p, body)
  \/ \E p \in Req, sent \in BOOLEAN : FaucetMint(p, sent)
  \/ \E p \in Req, confirmed \in BOOLEAN : FaucetWait(p, confirmed)
  \/ \E p \in Req, answered \in BOOLEAN : FaucetBalance(p, answered)
SpecFaucetSeq == InitFaucet /\ [][NextFaucetSeq]_vars

\* faucet alone, the requests concurrent and the clock advancing, USDT the
\* one token configured.
InitFaucetClock ==
  Init /\ OnlyFaucet(deps) /\ deps.faucetSigner /\ ~deps.methAddress
NextFaucetClock == Tick \/ FaucetStep
SpecFaucetClock == InitFaucetClock /\ [][NextFaucetClock]_vars

\* checkRateLimit alone.
InitRate == Init /\ Plain(deps)
NextRate ==
  \/ Tick
  \/ \E w \in {"0xAa", "0xBb"} :
       RateCheck(<<"sign-game", w>>, SignGameLimit, SignGameWindowMs)
SpecRate == InitRate /\ [][NextRate]_vars

\* One request of any route against the empty stores of any deployment.
NextOne ==
  \/ Tick
  \/ \E p \in Req, body \in IdentityBodies : last = NoLast /\ Quiet /\ SignIdentity(p, body)
  \/ \E p \in Req, signed \in BOOLEAN : SignIdentityResume(p, signed)
  \/ \E p \in Req, body \in RawRunBodies : last = NoLast /\ Quiet /\ RawRun(p, body)
  \/ \E p \in Req, body \in RunBodies : last = NoLast /\ Quiet /\ SignGameRun(p, body)
  \/ \E p \in Req, verified \in {"null", "true", "false", "throw"} : OracleReturn(p, verified)
  \/ \E p \in Req, signed \in BOOLEAN : SignGameRunResume(p, signed)
  \/ \E p \in Req, body \in FaucetBodies : last = NoLast /\ Quiet /\ Faucet(p, body)
  \/ \E p \in Req, sent \in BOOLEAN : FaucetMint(p, sent)
  \/ \E p \in Req, confirmed \in BOOLEAN : FaucetWait(p, confirmed)
  \/ \E p \in Req, answered \in BOOLEAN : FaucetBalance(p, answered)
SpecOne == Init /\ [][NextOne]_vars

\* sign-game-run one request at a time, the clock standing, with raw payloads
\* that agree with the body, that disagree with it, and whose events sum
\* beyond the finite doubles.
PayloadOverflow ==
  Obj(<<KV("events", Arr(<<Obj(<<KV("value", Num(9))>>), Obj(<<KV("value", Num(9))>>)>>))>>)
OrderRunBodies ==
  {RunBody(LowerText[1], HashA, ev, U(7), raw) :
     ev \in {U(5), U(9)},
     raw \in {Undefined, Null, PayloadA2, PayloadB, PayloadOverflow}}
NextOrder ==
  \/ \E p \in Req, body \in OrderRunBodies : Quiet /\ SignGameRun(p, body)
  \/ \E p \in Req, verified \in {"null", "true", "false", "throw"} : OracleReturn(p, verified)
  \/ \E p \in Req, signed \in BOOLEAN : SignGameRunResume(p, signed)
SpecOrder == InitRun /\ [][NextOrder]_vars

\* The same on the SQLite store with no oracle configured, the clock advancing.
NextMismatch == Tick \/ NextOrder
SpecMismatch == InitRunPlain /\ [][NextMismatch]_vars

\* Every route that takes a wallet, one request at a time, each wallet given
\* in both spellings; the clock stands and every awaited call succeeds.
WalletSpellings == {LowerText[1], ChecksumText[1]}
WalletIdentityBodies == {IdentityBody(w, c) : w \in WalletSpellings, c \in {U(7), U(8)}}
WalletRunBodies == {RunBody(w, HashA, U(5), U(7), Undefined) : w \in WalletSpellings}
WalletFaucetBodies == {FaucetBody(w, "undefined", "ip1") : w \in WalletSpellings}
InitWallet ==
  /\ Init
  /\ deps = [faucetSigner |-> TRUE, usdtAddress |-> TRUE, methAddress |-> FALSE,
             neonIdentityAddress |-> FALSE, store |-> "sqlite"]
NextWallet ==
  \/ \E p \in Req, body \in WalletIdentityBodies : Quiet /\ SignIdentity(p, body)
  \/ \E p \in Req : SignIdentityResume(p, TRUE)
  \/ \E p \in Req, body \in WalletRunBodies : Quiet /\ SignGameRun(p, body)
  \/ \E p \in Req : OracleReturn(p, "null")
  \/ \E p \in Req : SignGameRunResume(p, TRUE)
  \/ \E p \in Req, body \in WalletFaucetBodies : Quiet /\ Faucet(p, body)
  \/ \E p \in Req : FaucetMint(p, TRUE)
  \/ \E p \in Req : FaucetWait(p, TRUE)
  \/ \E p \in Req : FaucetBalance(p, TRUE)
  \/ \E p \in Req, text \in WalletSpellings \cup {NotAnAddress} : Quiet /\ GetUser(p, text)
SpecWallet == InitWallet /\ [][NextWallet]_vars

(***************************************************************************)
(* utils.ts called directly.  The values are what JSON.parse can give:     *)
(* scalars, sequences of up to MaxElems elements, and objects whose        *)
(* entries were inserted in either order, nested two levels deep.          *)
(***************************************************************************)
SeqsUpTo(S, n) == UNION {[1 .. k -> S] : k \in 0 .. n}

DistinctKeys(entries) ==
  \A i, j \in 1 .. Len(entries) : entries[i].k = entries[j].k => i = j

ObjectsOver(K, V) ==
  {Obj(es) : es \in {e \in SeqsUpTo({KV(k, v) : k \in K, v \in V}, 2) : DistinctKeys(e)}}

CanonLeaves == {Num(1), Num(2), Str("x"), Null}
CanonFlat ==
  CanonLeaves
    \cup {Arr(xs) : xs \in SeqsUpTo(CanonLeaves, MaxElems)}
    \cup ObjectsOver({"score", "wallet"}, CanonLeaves)
CanonInner == {o \in ObjectsOver({"score", "wallet"}, {Num(1)}) : Len(o.xs) = 2}
CanonInnerArrays == {Arr(<<a, b>>) : a, b \in CanonInner}
CanonValues ==
  CanonFlat
    \cup CanonInnerArrays
    \cup {Obj(<<KV("events", e), KV("value", o)>>) : e \in CanonInnerArrays, o \in CanonInner}
    \cup {Obj(<<KV("value", o), KV("events", e)>>) : e \in CanonInnerArrays, o \in CanonInner}

\* stableStringify and computeRunHash applied to the two values given.
Canonicalize ==
  /\ fnLast.fn = "" /\ Len(fnLast.args) = 2
  /\ LET a == fnLast.args[1]
         b == fnLast.args[2]
     IN fnLast' = [fn |-> "computeRunHash", args |-> <<a, b>>,
                   out |-> <<[text |-> stableStringify(a), hash |-> computeRunHash(a)],
                             [text |-> stableStringify(b), hash |-> computeRunHash(b)]>>]
  /\ UNCHANGED <<deps, now, users, runs, rawRuns, faucetClaims, rateLimits, mintLog,
                 pc, loc, last, admitted, issued, rlLast>>

InitCanon ==
  /\ Boot /\ Plain(deps)
  /\ \E a, b \in CanonValues : fnLast = [fn |-> "", args |-> <<a, b>>, out |-> <<>>]
NextCanon == Canonicalize
SpecCanon == InitCanon /\ [][NextCanon]_vars

\* What a payload can hold under score and extractionValue, absent included.
ExtractScalars ==
  {Undefined, Num(3), Num(0 - 5), Half(1), Half(0 - 1), Infinite, Str("10"), Null}
\* The elements of events: objects with and without a numeric value, and
\* elements that are not objects.
ExtractEvents ==
  {Obj(<<KV("value", Num(2))>>), Obj(<<KV("value", Num(9))>>),
   Obj(<<KV("value", Half(0 - 1))>>), Obj(<<KV("value", Str("4"))>>),
   Obj(<<>>), Num(7)}
ExtractSequences ==
  {Undefined, Str("x")} \cup {Arr(xs) : xs \in SeqsUpTo(ExtractEvents, MaxElems)}

\* An object of the entries that are not undefined.
ObjOf(entries) == Obj(SelectSeq(entries, LAMBDA e : e.v.t # "undefined"))

ExtractPayloads ==
  {Null, Num(4), Arr(<<Obj(<<KV("score", Num(3))>>)>>)}
    \cup {ObjOf(<<KV("score", sc), KV("extractionValue", ev), KV("events", es)>>) :
            sc \in ExtractScalars, ev \in ExtractScalars, es \in ExtractSequences}

\* computeExtractionValue applied to the payload given.
Extract ==
  /\ fnLast.fn = "" /\ Len(fnLast.args) = 1
  /\ fnLast' = [fn |-> "computeExtractionValue", args |-> fnLast.args,
                out |-> <<computeExtractionValue(fnLast.args[1])>>]
  /\ UNCHANGED <<deps, now, users, runs, rawRuns, faucetClaims, rateLimits, mintLog,
                 pc, loc, last, admitted, issued, rlLast>>

InitExtract ==
  /\ Boot /\ Plain(deps)
  /\ \E payload \in ExtractPayloads : fnLast = [fn |-> "", args |-> <<payload>>, out |-> <<>>]
NextExtract == Extract
SpecExtract == InitExtract /\ [][NextExtract]_vars

(***************************************************************************)
(* Properties.                                                             *)
(***************************************************************************)
GameKey(w) == <<"sign-game", w>>
IdentityKey(w) == <<"sign-identity", w>>

LimitOf(key) ==
  IF key[1] = "sign-identity" THEN SignIdentityLimit
  ELSE IF key[1] = "sign-game" THEN SignGameLimit
  ELSE FaucetIpLimit

WindowOf(key) ==
  IF key[1] = "sign-identity" THEN SignIdentityWindowMs
  ELSE IF key[1] = "sign-game" THEN SignGameWindowMs
  ELSE FaucetWindowMs

\* The request that ended last went through validation and the rate limiter
\* of the route.
LastPassed(route) == last.loc.route = route /\ last.loc.valid /\ last.loc.admitted

\* C1: when finalize requests are handled one after the other, a valid and
\* admitted request for a run hash that an earlier request was answered 200
\* for is answered 409 duplicate_run without a signature; each hash has at
\* most one such 200, and the runs row of the hash is the row that request
\* inserted.
C1_SequentialIdempotency ==
  \A h \in RunHashKeys :
    /\ Len(issued[h]) <= 1
    /\ runs[h].present => issued[h] = <<runs[h]>>
    /\ (LastPassed("sign-game-run") /\ last.loc.runHash = h /\ issued[h] # <<>>) =>
         \/ /\ last.res.status = 200
            /\ last.res.signature # NoSig
            /\ issued[h] = <<last.loc.row>>
         \/ /\ last.res.status = 409
            /\ last.res.error = "duplicate_run"
            /\ last.res.signature = NoSig

\* A second request was answered duplicate_run, the row of the first in place.
C1_Witness ==
  /\ last.res.error = "duplicate_run"
  /\ Len(issued[HashA]) = 1
  /\ runs[HashA] = issued[HashA][1]

\* C2: of the finalize requests in flight for one run hash at most one is
\* answered 200, and none that passed the duplicate check is refused at the
\* insert: check and insert are one atomic unit.
C2_AtomicReserve ==
  /\ \A h \in RunHashKeys : Len(issued[h]) <= 1
  /\ ~(/\ last.loc.route = "sign-game-run"
       /\ last.audit # <<>>
       /\ last.audit[1].details = "UNIQUE constraint failed: runs.run_hash")

\* C3: inside the stored window exactly the first maxRequests checks of a key
\* are admitted; the first check once windowMs has elapsed since window_start
\* is admitted and stores window_start = now, count = 1.
C3_FixedWindow ==
  /\ \A k \in RateKeys : admitted[k] <= LimitOf(k)
  /\ rlLast.at # NoTime =>
       LET k == rlLast.key
           before == IF rlLast.allowed THEN admitted[k] - 1 ELSE admitted[k]
       IN IF rlLast.row.present /\ rlLast.at - rlLast.row.window_start < WindowOf(k)
            THEN /\ rlLast.allowed <=> before < LimitOf(k)
                 /\ rateLimits[k].window_start = rlLast.row.window_start
                 /\ rateLimits[k].count = admitted[k]
                 /\ rateLimits[k].count =
                      IF rlLast.allowed THEN rlLast.row.count + 1 ELSE rlLast.row.count
            ELSE /\ rlLast.allowed
                 /\ rateLimits[k] = [present |-> TRUE, window_start |-> rlLast.at, count |-> 1]

\* A full window has elapsed and the next check was admitted into a new one.
C3_Witness ==
  /\ rlLast.allowed
  /\ rlLast.row.present
  /\ rlLast.row.count = LimitOf(rlLast.key)
  /\ rlLast.at - rlLast.row.window_start >= WindowOf(rlLast.key)

\* C4: with concurrent requests on one key inside one window, the checks
\* admitted never exceed the limit and the stored count is their number.
C4_RateAtomic ==
  \A k \in RateKeys :
    /\ admitted[k] <= LimitOf(k)
    /\ rateLimits[k].present => rateLimits[k].count = admitted[k]
    /\ ~rateLimits[k].present => admitted[k] = 0

\* Two admitted requests on the key are suspended together, the window full.
C4_Witness ==
  \E p, q \in Req :
    /\ p # q
    /\ pc[p] # "idle" /\ pc[q] # "idle"
    /\ loc[p].wallet = loc[q].wallet
    /\ admitted[GameKey(loc[p].wallet)] = SignGameLimit

\* The locals of the handler of slot p after a step that started it: its own
\* when it is suspended, those of the finished request otherwise.
LocalsAfter(p) == IF pc'[p] = "idle" THEN last'.loc ELSE loc'[p]

\* The handler of slot p has ended in this step with the error, unsigned.
EndedWith(p, error) ==
  /\ pc'[p] = "idle"
  /\ last'.res.error = error
  /\ last'.res.signature = NoSig

NoMint == mintLog' = mintLog

MintInvoked(k) ==
  /\ mintLog'[k] # <<>>
  /\ mintLog'[k][Len(mintLog'[k])] = now

\* The handler that resumes after the balance query answers 200 and records
\* the claim at the time of its answer.
FaucetSucceeds ==
  \A p \in Req :
    FaucetBalance(p, TRUE) =>
      /\ loc[p].minted
      /\ last'.res.status = 200
      /\ faucetClaims'[<<loc[p].wallet, loc[p].token>>] =
           [present |-> TRUE, last_claim_at |-> toISOString(now)]

C6_BoundedIssuance ==
  \A k \in WalletText \X Tokens :
    Len(mintLog[k]) = 2 => mintLog[k][2] - mintLog[k][1] >= FaucetWindowMs

\* The commitment stored for a wallet never changes once its row exists.
CommitmentKept ==
  \A w \in WalletText :
    users[w].present => users'[w].present /\ users'[w].commitment = users[w].commitment

\* The handler that resumes after signing answers 200 with the signature of
\* the commitment and the wallet it was called with.
IdentitySigned ==
  \A p \in Req :
    SignIdentityResume(p, TRUE) =>
      /\ last'.res.status = 200
      /\ last'.res.signature =
           signTypedData("IdentityRegistration",
                         identityTypes(loc[p].commitment, loc[p].wallet))
      /\ users' = users

\* A sign-identity request goes on to sign, the row of W holding C.
Registers(p, W, C) ==
  /\ pc'[p] = "si_sign"
  /\ loc'[p].wallet = W /\ loc'[p].commitment = C
  /\ users'[W].present /\ users'[W].commitment = ToString(C)

\* C7: for a wallet W with no verified row: the first sign-identity(W, C)
\* stores C and is signed; a later sign-identity(W, C) the rate limit admits
\* is signed too, the row still holding C; a later sign-identity(W, D), D # C,
\* the rate limit admits ends commitment_mismatch, unsigned, users unchanged;
\* and no step changes the commitment of a row.
C7_RegistrationSequence ==
  [][/\ CommitmentKept
     /\ IdentitySigned
     /\ \A p \in Req, body \in IdentityBodies :
          LET w == normalizeAddress(body.wallet)
              c == parseUint256(body.commitment)
              row == users[w.value]
          IN (SignIdentity(p, body) /\ w.ok /\ c.ok /\ ~(row.present /\ row.verified = 1)) =>
               IF ~row.present THEN Registers(p, w.value, c.value)
               ELSE IF ~LocalsAfter(p).admitted
                 THEN EndedWith(p, "rate_limited") /\ users' = users
               ELSE IF row.commitment = ToString(c.value)
                 THEN Registers(p, w.value, c.value)
               ELSE EndedWith(p, "commitment_mismatch") /\ users' = users]_vars

\* A request with another commitment was refused, the row of the wallet kept.
C7_Witness ==
  /\ last.loc.route = "sign-identity"
  /\ last.res.error = "commitment_mismatch"
  /\ users[last.loc.wallet].present
  /\ users[last.loc.wallet].commitment # ToString(last.loc.commitment)

\* C7 as first stated: every later sign-identity(W, D), D # C, ends
\* commitment_mismatch, rate-limited or not.
C7_AsStated ==
  [][/\ CommitmentKept
     /\ IdentitySigned
     /\ \A p \in Req, body \in IdentityBodies :
          LET w == normalizeAddress(body.wallet)
              c == parseUint256(body.commitment)
              row == users[w.value]
          IN (SignIdentity(p, body) /\ w.ok /\ c.ok /\ ~(row.present /\ row.verified = 1)) =>
               IF ~row.present THEN Registers(p, w.value, c.value)
               ELSE IF row.commitment = ToString(c.value)
                 THEN LocalsAfter(p).admitted => Registers(p, w.value, c.value)
               ELSE EndedWith(p, "commitment_mismatch") /\ users' = users]_vars

\* The raw payload makes computeExtractionValue throw.
RawThrows(body) == Truthy(body.raw) /\ ~computeExtractionValue(body.raw).ok

\* The raw payload of the body disagrees with what the body claims.
Disagrees(body) ==
  /\ body.raw.t # "undefined"
  /\ \/ computeRunHash(body.raw) # ensureBytes32(body.runHash).value
     \/ computeExtractionValue(body.raw).value # parseUint256(body.extractionValue).value

\* The error of the disagreement: the hash is compared first.
MismatchOf(body) ==
  IF computeRunHash(body.raw) # ensureBytes32(body.runHash).value
    THEN "run_hash_mismatch" ELSE "extraction_value_mismatch"

\* Every counter but that of the key is as it was.
OnlyCounter(key) == \A k \in RateKeys : k # key => rateLimits'[k] = rateLimits[k]

C9_AuditComplete == last.loc.route # "" => Len(last.audit) = 1

\* C10: no step changes or removes a row of runs, and the handler that
\* reaches its insert when the run hash has a row does not answer 200.
C10_WriteOnce ==
  [][/\ \A h \in RunHashKeys : runs[h].present => runs'[h] = runs[h]
     /\ \A p \in Req :
          (SignGameRunResume(p, TRUE) /\ runs[loc[p].runHash].present) =>
            last'.res.status # 200]_vars

\* C11: while a handler has signTypedData under way for a run hash, the row of
\* that hash is in runs: the run is reserved before it is signed.
C11_ReserveBeforeSign ==
  \A p \in Req : pc[p] = "gr_sign" => runs[loc[p].runHash].present

\* C12: a valid sign-identity request the rate limit admits, for a wallet
\* whose row has verified = 1, ends 409 already_verified, unsigned, whatever
\* its commitment, and leaves users as it was.
C12_VerifiedClosed ==
  [][\A p \in Req, body \in IdentityBodies :
       LET w == normalizeAddress(body.wallet)
           c == parseUint256(body.commitment)
       IN (Free(p) /\ w.ok /\ c.ok /\ users[w.value].present /\ users[w.value].verified = 1
             /\ SignIdentity(p, body) /\ LocalsAfter(p).admitted) =>
            /\ EndedWith(p, "already_verified")
            /\ last'.res.status = 409
            /\ users' = users]_vars

\* A request with the stored commitment was refused for a verified wallet.
C12_Witness ==
  /\ last.loc.route = "sign-identity"
  /\ last.res.error = "already_verified"
  /\ users[last.loc.wallet].verified = 1
  /\ users[last.loc.wallet].commitment = ToString(last.loc.commitment)

\* C13: when isIdentityVerified gives false the handler ends 403
\* identity_not_verified, unsigned, with runs as it was; when it gives null
\* (no oracle configured, and only then) or true, the handler goes on to
\* signTypedData with its locals as they were.
C13_OracleGate ==
  [][\A p \in Req :
       /\ OracleReturn(p, "false") =>
            /\ EndedWith(p, "identity_not_verified")
            /\ last'.res.status = 403
            /\ runs' = runs /\ issued' = issued
       /\ \A verified \in {"null", "true"} :
            OracleReturn(p, verified) =>
              /\ verified = "null" <=> ~deps.neonIdentityAddress
              /\ pc'[p] = "gr_sign"
              /\ loc'[p] = loc[p]
              /\ last' = last]_vars

\* The oracle denied a request, and no run was inserted for its hash.
C13_Witness ==
  /\ last.res.error = "identity_not_verified"
  /\ deps.neonIdentityAddress
  /\ ~runs[last.loc.runHash].present

Derived(h) == {i \in 1 .. Len(rawRuns) : rawRuns[i].run_hash = HashText(h)}

\* C15: every raw derivation answered 200 appends exactly one record to
\* raw_runs, whose run_hash and extraction_value it answers with, and leaves
\* rate_limits and runs alone; and a valid finalize request the rate limit
\* admits is taken past the duplicate check exactly when runs has no row of
\* its hash, whatever raw_runs holds.
C15_RawOnlyDerives ==
  [][/\ \A p \in Req, body \in RawRunBodies :
          (Free(p) /\ last'.loc.route = "raw-run" /\ RawRun(p, body)
             /\ last'.res.status = 200) =>
            /\ Len(rawRuns') = Len(rawRuns) + 1
            /\ SubSeq(rawRuns', 1, Len(rawRuns)) = rawRuns
            /\ rawRuns'[Len(rawRuns')].run_hash = last'.res.runHash
            /\ rawRuns'[Len(rawRuns')].extraction_value = last'.res.extractionValue
            /\ rateLimits' = rateLimits /\ admitted' = admitted
            /\ runs' = runs /\ issued' = issued
     /\ \A p \in Req, body \in RunBodies :
          (Free(p) /\ LocalsAfter(p).route = "sign-game-run" /\ SignGameRun(p, body)
             /\ LocalsAfter(p).valid /\ LocalsAfter(p).admitted /\ ~Disagrees(body)) =>
            IF runs[LocalsAfter(p).runHash].present
              THEN EndedWith(p, "duplicate_run")
              ELSE pc'[p] = "gr_oracle"]_vars

\* The hash was derived twice and then finalized, once.
C15_Witness ==
  /\ Cardinality(Derived(HashA)) = 2
  /\ last.loc.route = "sign-game-run"
  /\ last.res.status = 200
  /\ issued[HashA] = <<runs[HashA]>>

\* C16: a row of faucet_claims, once present, stays, and every step leaves
\* its last_claim_at at a time not earlier than the one it had.
C16_ClaimMonotone ==
  [][\A k \in WalletText \X Tokens :
       faucetClaims[k].present =>
         /\ faucetClaims'[k].present
         /\ DateParse(faucetClaims'[k].last_claim_at) >=
              DateParse(faucetClaims[k].last_claim_at)]_vars

\* A request that found a row of its (wallet, token) has written a later time.
C16_Witness ==
  /\ last.loc.route = "faucet"
  /\ last.res.status = 200
  /\ last.loc.existing
  /\ DateParse(faucetClaims[<<last.loc.wallet, last.loc.token>>].last_claim_at)
       >= FaucetWindowMs

\* Structural equality of two values: the same scalar, sequences equal element
\* by element in order, objects with the same keys and structurally equal
\* values under each key, whatever the order the keys were inserted in.
RECURSIVE StructEq(_, _)
StructEq(a, b) ==
  IF a.t # b.t THEN FALSE
  ELSE IF a.t = "array"
    THEN /\ Len(a.xs) = Len(b.xs)
         /\ \A i \in 1 .. Len(a.xs) : StructEq(a.xs[i], b.xs[i])
  ELSE IF a.t = "object"
    THEN /\ {a.xs[i].k : i \in 1 .. Len(a.xs)} = {b.xs[i].k : i \in 1 .. Len(b.xs)}
         /\ \A i \in 1 .. Len(a.xs) : StructEq(a.xs[i].v, Get(b, a.xs[i].k))
  ELSE a = b

\* b holds the elements of a in another order.
Reordered(a, b) ==
  /\ a.t = "array" /\ b.t = "array" /\ Len(a.xs) = Len(b.xs)
  /\ \E f \in [1 .. Len(a.xs) -> 1 .. Len(a.xs)] :
       /\ \A i, j \in 1 .. Len(a.xs) : f[i] = f[j] => i = j
       /\ \A i \in 1 .. Len(a.xs) : StructEq(b.xs[i], a.xs[f[i]])
  /\ ~StructEq(a, b)

\* C17: two structurally equal values, whatever the order their keys were
\* inserted in, have the same stableStringify text and the same computeRunHash
\* digest; a sequence and a reordering of it that differs from it have
\* different texts and digests.
C17_OrderIndependent ==
  fnLast.fn = "computeRunHash" =>
    LET a == fnLast.args[1]
        b == fnLast.args[2]
    IN /\ StructEq(a, b) => fnLast.out[1] = fnLast.out[2]
       /\ Reordered(a, b) =>
            /\ fnLast.out[1].text # fnLast.out[2].text
            /\ fnLast.out[1].hash # fnLast.out[2].hash

\* Two nested objects built with their keys in different orders at both
\* levels got one digest.
C17_Witness ==
  /\ fnLast.fn = "computeRunHash"
  /\ fnLast.args[1].t = "object" /\ fnLast.args[2].t = "object"
  /\ ObjectKeys(fnLast.args[1]) = <<"value", "events">>
  /\ ObjectKeys(fnLast.args[2]) = <<"events", "value">>
  /\ ObjectKeys(Get(fnLast.args[1], "value")) # ObjectKeys(Get(fnLast.args[2], "value"))
  /\ StructEq(fnLast.args[1], fnLast.args[2])
  /\ fnLast.out[1].hash = fnLast.out[2].hash

\* The greatest integer not above a finite number, and that integer clamped
\* to >= 0.
FloorOf(v) ==
  LET twice == 2 * v.n + (IF v.s = "" THEN 0 ELSE 1)
  IN CHOOSE k \in (v.n - 1) .. (v.n + 1) : 2 * k <= twice /\ twice < 2 * k + 2
FlooredClamped(v) == CHOOSE m \in {0, FloorOf(v)} : m >= 0 /\ m >= FloorOf(v)

FiniteNumber(v) == v.t = "number" /\ v # Infinite

\* The sum, over the elements of a sequence, of each finite numeric value
\* floored and clamped; any other element contributes 0.
RECURSIVE EventSum(_)
EventSum(xs) ==
  IF xs = <<>> THEN 0
  ELSE LET last_ == xs[Len(xs)]
       IN EventSum(SubSeq(xs, 1, Len(xs) - 1))
            + (IF last_.t = "object" /\ FiniteNumber(Get(last_, "value"))
                 THEN FlooredClamped(Get(last_, "value")) ELSE 0)

\* The value of the first branch that applies, in the order score,
\* extractionValue, events, 0.
BranchValue(payload) ==
  IF FiniteNumber(Get(payload, "score")) THEN FlooredClamped(Get(payload, "score"))
  ELSE IF FiniteNumber(Get(payload, "extractionValue"))
    THEN FlooredClamped(Get(payload, "extractionValue"))
  ELSE IF Get(payload, "events").t = "array" THEN EventSum(Get(payload, "events").xs)
  ELSE 0

\* C18: for every payload computeExtractionValue returns the value of the
\* first branch that applies (finite score, else finite extractionValue, else
\* the sum over events, else 0), a value that is never negative.
C18_Precedence ==
  fnLast.fn = "computeExtractionValue" =>
    /\ fnLast.out[1].ok
    /\ fnLast.out[1].value = BranchValue(fnLast.args[1])
    /\ fnLast.out[1].value >= 0

\* The branch taken is the sum over events.
SumsEvents(payload) ==
  /\ payload.t = "object"
  /\ ~FiniteNumber(Get(payload, "score"))
  /\ ~FiniteNumber(Get(payload, "extractionValue"))
  /\ Get(payload, "events").t = "array"

\* computeExtractionValue throws exactly when the sum over events is beyond
\* the finite doubles, and returns the value of the first branch otherwise.
ExtractUpToOverflow ==
  fnLast.fn = "computeExtractionValue" =>
    LET payload == fnLast.args[1]
    IN IF SumsEvents(payload) /\ EventSum(Get(payload, "events").xs) > MaxDouble
         THEN ~fnLast.out[1].ok
         ELSE /\ fnLast.out[1].ok
              /\ fnLast.out[1].value = BranchValue(payload)
              /\ fnLast.out[1].value >= 0

\* The other spelling of a wallet text.
Respell(text) ==
  CHOOSE other \in WalletText : other # text /\ getAddress(other) = getAddress(text)

Canonical == {ChecksumText[a] : a \in Addr}

\* No row of users, faucet_claims, rate_limits or runs is under a wallet text
\* that is not the canonical one.
KeysCanonical ==
  /\ \A w \in WalletText \ Canonical :
       /\ ~users[w].present
       /\ \A token \in Tokens : ~faucetClaims[<<w, token>>].present
       /\ ~rateLimits[<<"sign-identity", w>>].present
       /\ ~rateLimits[<<"sign-game", w>>].present
  /\ \A h \in RunHashKeys : runs[h].present => runs[h].wallet \in Canonical

\* C19: the two spellings of a wallet are one key.  A sign-identity,
\* sign-game-run or faucet request has the effect and the answer of the same
\* request with the wallet spelled the other way, a user lookup answers the
\* same under both spellings, and no row is ever stored under a wallet text
\* that is not canonical.
C19_WalletKey ==
  [][/\ KeysCanonical'
     /\ \A text \in WalletText : lookupUser(users', text) = lookupUser(users', Respell(text))
     /\ \A p \in Req :
          Free(p) =>
            /\ \A body \in WalletIdentityBodies :
                 SignIdentity(p, body) =>
                   SignIdentity(p, [body EXCEPT !.wallet = Respell(body.wallet)])
            /\ \A body \in WalletRunBodies :
                 SignGameRun(p, body) =>
                   SignGameRun(p, [body EXCEPT !.wallet = Respell(body.wallet)])
            /\ \A body \in WalletFaucetBodies :
                 Faucet(p, body) =>
                   Faucet(p, [body EXCEPT !.wallet = Respell(body.wallet)])]_vars

\* A wallet registered and funded, its run signed, and the user then looked
\* up under the lower-case spelling: the row found is the canonical one.
C19_Witness ==
  /\ last.loc.route = "user"
  /\ last.loc.text = LowerText[1]
  /\ last.res.status = 200
  /\ last.res.user.wallet = ChecksumText[1]
  /\ faucetClaims[<<ChecksumText[1], "USDT">>].present
  /\ runs[HashA].present
  /\ rateLimits[<<"sign-identity", ChecksumText[1]>>].count = SignIdentityLimit

\* The sign-game counter of the wallet is at its limit inside its window.
Limited(w) ==
  LET row == rateLimits[GameKey(w)]
  IN row.present /\ now - row.window_start < SignGameWindowMs /\ row.count >= SignGameLimit

\* The first of the checks rate limit, duplicate run hash, raw hash, raw
\* value that fails for a body, "" when none does.
FirstFailing(body) ==
  LET h == ensureBytes32(body.runHash).value
  IN IF Limited(getAddress(body.wallet)) THEN "rate_limited"
     ELSE IF runs[h].present THEN "duplicate_run"
     ELSE IF ~Truthy(body.raw) THEN ""
     ELSE IF computeRunHash(body.raw) # h THEN "run_hash_mismatch"
     ELSE IF computeExtractionValue(body.raw).value # parseUint256(body.extractionValue).value
       THEN "extraction_value_mismatch"
     ELSE ""

StatusOf(error) ==
  IF error = "rate_limited" THEN 429 ELSE IF error = "duplicate_run" THEN 409 ELSE 400

\* C20: a finalize request that passes validation is answered with the error
\* of the first check that fails, in the order rate limit, duplicate run
\* hash, raw hash, raw value, and then does not call the oracle; it calls the
\* oracle exactly when none of the four fails.
C20_CheckOrder ==
  [][\A p \in Req, body \in OrderRunBodies :
       (Free(p) /\ LocalsAfter(p).route = "sign-game-run" /\ SignGameRun(p, body)) =>
         IF FirstFailing(body) = ""
           THEN pc'[p] = "gr_oracle"
           ELSE /\ EndedWith(p, FirstFailing(body))
                /\ last'.res.status = StatusOf(FirstFailing(body))
                /\ last'.audit = <<>>]_vars

\* The same order, with the throw of computeExtractionValue in its place:
\* after the duplicate check and before the comparison of the hashes.
CheckOrderUpToThrow ==
  [][\A p \in Req, body \in OrderRunBodies :
       (Free(p) /\ LocalsAfter(p).route = "sign-game-run" /\ SignGameRun(p, body)) =>
         IF FirstFailing(body) \notin {"rate_limited", "duplicate_run"} /\ RawThrows(body)
           THEN /\ EndedWith(p, "invalid_request")
                /\ Len(last'.audit) = 1
         ELSE IF FirstFailing(body) = ""
           THEN pc'[p] = "gr_oracle"
           ELSE /\ EndedWith(p, FirstFailing(body))
                /\ last'.res.status = StatusOf(FirstFailing(body))
                /\ last'.audit = <<>>]_vars

\* C21: a sign-identity request that ends in a failure, the rejection of
\* signTypedData included, leaves the users row of its wallet as the request
\* found it (the verified flag aside, which is not the service's to set).
C21_IdentityAtomic ==
  [][\A p \in Req :
       /\ \A body \in IdentityBodies :
            (Free(p) /\ SignIdentity(p, body) /\ pc'[p] = "idle") => users' = users
       /\ (pc[p] = "si_sign" /\ SignIdentityResume(p, FALSE)) =>
            LET w == loc[p].wallet
            IN [users'[w] EXCEPT !.verified = loc[p].found.verified] = loc[p].found]_vars

\* C22: a faucet request whose mint was not confirmed ends with faucet_claims
\* unchanged, and one whose mint was confirmed ends with the row of its
\* (wallet, token) upserted, whether or not balanceOf answered.
C22_FaucetCommit ==
  [][\A p \in Req :
       (pc[p] \in {"fc_mint", "fc_wait", "fc_balance"} /\ pc'[p] = "idle") =>
         LET k == <<loc[p].wallet, loc[p].token>>
         IN IF loc[p].minted
              THEN /\ faucetClaims'[k].present
                   /\ faucetClaims'[k].last_claim_at = toISOString(now)
              ELSE faucetClaims' = faucetClaims]_vars

\* The direct calls of checkRateLimit admitted for a key, and how many of
\* them fall in the interval a..b or were counted under the window ws.
AdmittedLog(k) == rlLast.log[k]
Burst(k, a, b) ==
  Cardinality({i \in DOMAIN AdmittedLog(k) : a <= AdmittedLog(k)[i].at /\ AdmittedLog(k)[i].at <= b})
InWindow(k, ws) == {i \in DOMAIN AdmittedLog(k) : AdmittedLog(k)[i].window = ws}

\* C23: the requests admitted for a key at times within any interval shorter
\* than windowMs number at most 2 * maxRequests - 1, and those admitted under
\* one stored window at most maxRequests.
C23_BurstBound ==
  \A k \in RateKeys :
    /\ \A a, b \in Time :
         (a <= b /\ b - a < WindowOf(k)) => Burst(k, a, b) <= 2 * LimitOf(k) - 1
    /\ \A ws \in Time : Cardinality(InWindow(k, ws)) <= LimitOf(k)

\* maxRequests - 1 admitted at the end of one window and maxRequests at the
\* start of the next: 2 * maxRequests - 1 inside an interval shorter than windowMs.
C23_Witness ==
  \E k \in RateKeys, a, b \in Time :
    /\ a <= b /\ b - a < WindowOf(k)
    /\ LimitOf(k) >= 2
    /\ Burst(k, a, b) = 2 * LimitOf(k) - 1
    /\ \E ws \in Time : ws < a /\ InWindow(k, ws) # {}

\* C23 as first stated, on the case it names: the maxRequests admitted under
\* one window and the maxRequests admitted under the next lie together in an
\* interval shorter than windowMs.
C23_AsStated ==
  \A k \in RateKeys, ws1, ws2 \in Time :
    (/\ ws1 < ws2
     /\ Cardinality(InWindow(k, ws1)) = LimitOf(k)
     /\ Cardinality(InWindow(k, ws2)) = LimitOf(k)) =>
      \E a, b \in Time :
        a <= b /\ b - a < WindowOf(k) /\ Burst(k, a, b) >= 2 * LimitOf(k)

\* The keys SpecRate calls checkRateLimit on.
RateCheckKeys == {GameKey(ChecksumText[a]) : a \in Addr}

\* C24: a rejection at time now reports retryAfterMs = windowMs - (now -
\* window_start), which is above 0 and at most windowMs, and the first check
\* of the key made at now + retryAfterMs or later is admitted.
C24_RetryAfter ==
  [][/\ (rlLast'.at # NoTime /\ ~rlLast'.allowed) =>
          /\ rlLast'.retryAfterMs =
               WindowOf(rlLast'.key) - (rlLast'.at - rlLast'.row.window_start)
          /\ 0 < rlLast'.retryAfterMs
          /\ rlLast'.retryAfterMs <= WindowOf(rlLast'.key)
     /\ \A k \in RateCheckKeys :
          (RateCheck(k, SignGameLimit, SignGameWindowMs)
             /\ rlLast.retryAt[k] # NoTime /\ now >= rlLast.retryAt[k]) =>
            rlLast'.allowed]_vars

\* A check rejected earlier was repeated at the time it was told and admitted.
C24_Witness ==
  /\ rlLast.allowed
  /\ rlLast.due # NoTime
  /\ rlLast.at = rlLast.due

\* C24 as first stated: every check of the key made at now + retryAfterMs of
\* a rejection, or later, is admitted.
C24_AsStated ==
  [][\A k \in RateCheckKeys :
       (RateCheck(k, SignGameLimit, SignGameWindowMs)
          /\ rlLast.retryAtEver[k] # NoTime /\ now >= rlLast.retryAtEver[k]) =>
         rlLast'.allowed]_vars

\* The value of the named field of a signed message.
Signed(signature, name) ==
  signature.message[CHOOSE i \in DOMAIN signature.message : signature.message[i].name = name].value

\* C25: a finalize request answered 200 has signed a GameRunSubmission whose
\* runHash, extractionValue and identityCommitment are those of the row it
\* inserted and of its response, and whose player is the wallet of the row,
\* the canonical form of the wallet of the request; the domain is that of
\* IdentityRegistration, the message kind is not.
C25_SignedStoredEchoed ==
  [][\A p \in Req :
       /\ \A body \in RunBodies :
            (Free(p) /\ pc'[p] = "gr_oracle" /\ SignGameRun(p, body)) =>
              loc'[p].wallet = getAddress(body.wallet)
       /\ (pc[p] = "gr_sign" /\ pc'[p] = "idle" /\ last'.res.status = 200) =>
            LET sig == last'.res.signature
                res == last'.res
                row == runs'[loc[p].runHash]
            IN /\ sig.primaryType = "GameRunSubmission"
               /\ Len(sig.message) = 4
               /\ Signed(sig, "runHash") = row.run_hash
               /\ Signed(sig, "runHash") = res.runHash
               /\ Signed(sig, "extractionValue") = row.extraction_value
               /\ Signed(sig, "extractionValue") = res.extractionValue
               /\ Signed(sig, "identityCommitment") = row.identity_commitment
               /\ Signed(sig, "identityCommitment") = res.identityCommitment
               /\ Signed(sig, "player") = row.wallet
               /\ row.wallet = loc[p].wallet
               /\ row.wallet \in Canonical
               /\ sig.domain = eip712Domain("deps.chainId", "deps.ecdsaVerifierAddress")
               /\ sig.domain = signTypedData("IdentityRegistration",
                                            identityTypes(0, row.wallet)).domain
               /\ sig.primaryType #
                    signTypedData("IdentityRegistration",
                                  identityTypes(0, row.wallet)).primaryType]_vars

\* A request made with the lower-case wallet was answered 200 with its
\* signature, and the row of its run hash is under the canonical wallet.
C25_Witness ==
  /\ last.loc.route = "sign-game-run"
  /\ last.res.status = 200
  /\ last.res.signature.primaryType = "GameRunSubmission"
  /\ runs[last.loc.runHash].wallet = ChecksumText[1]
  /\ runs[last.loc.runHash].extraction_value = last.res.extractionValue

(***************************************************************************)
(* Raw derivation followed by sign-game-run with the payload that was      *)
(* derived, one request at a time, the clock standing.                     *)
(***************************************************************************)
PayloadLower == Obj(<<KV("wallet", Str("0xaa")), KV("score", Num(5))>>)
PayloadExtra ==
  Obj(<<KV("wallet", Str("0xAa")), KV("score", Num(5)), KV("value", Num(3))>>)
RoundTripPayloads == {PayloadA, PayloadA2, PayloadLower, PayloadExtra}
RoundTripBodies ==
  {RunBody(LowerText[1], HashA, ev, U(7), raw) :
     ev \in {U(5), U(9)}, raw \in RoundTripPayloads}
NextRoundTrip ==
  \/ \E p \in Req, body \in RoundTripPayloads : Quiet /\ RawRun(p, body)
  \/ \E p \in Req, body \in RoundTripBodies : Quiet /\ SignGameRun(p, body)
  \/ \E p \in Req, verified \in {"null", "true", "false", "throw"} : OracleReturn(p, verified)
  \/ \E p \in Req, signed \in BOOLEAN : SignGameRunResume(p, signed)
SpecRoundTrip == InitRun /\ [][NextRoundTrip]_vars

\* The rows of raw_runs that hold the derivation of the payload: the payload
\* column is the text of the parsed payload under the normalized wallet.
DerivedFrom(P) ==
  {i \in 1 .. Len(rawRuns) :
     rawRuns[i].payload =
       JSONstringify(withWallet(rawRunSchemaParse(P), getAddress(Get(P, "wallet").s)))}

\* The request claims the run hash and the extraction value that raw
\* derivation answered for its raw payload.
ClaimsDerivation(body) ==
  \E i \in DerivedFrom(body.raw) :
    /\ rawRuns[i].run_hash = HashText(body.runHash)
    /\ rawRuns[i].extraction_value = ToString(parseUint256(body.extractionValue).value)

\* C26: a finalize request that claims the runHash and the extractionValue
\* raw derivation answered for a payload, and supplies that payload as raw,
\* ends neither with run_hash_mismatch nor with extraction_value_mismatch,
\* whatever the spelling of the payload's wallet and whatever other fields
\* the payload carries.
C26_RoundTrip ==
  [][\A p \in Req, body \in RoundTripBodies :
       (Free(p) /\ LocalsAfter(p).route = "sign-game-run" /\ ClaimsDerivation(body)
          /\ SignGameRun(p, body)) =>
         /\ ~EndedWith(p, "run_hash_mismatch")
         /\ ~EndedWith(p, "extraction_value_mismatch")]_vars

(***************************************************************************)
(* Every route that takes a wallet, one request at a time, beside the      *)
(* external process that marks a registered wallet verified; signing may   *)
(* fail after the row was written.                                         *)
(***************************************************************************)
NextVerified ==
  \/ NextWallet
  \/ \E p \in Req : SignIdentityResume(p, FALSE)
  \/ \E w \in WalletText : ExternalVerify(w)
SpecVerified == InitWallet /\ [][NextVerified]_vars

\* C27: a users row is created with verified = 0, and the verified field of
\* an existing row is changed by no step of the service (sign-identity with
\* its update on conflict, sign-game-run, the faucet, the user lookup): it
\* changes only by the external process.
C27_VerifiedFrame ==
  [][\A w \in WalletText :
       /\ (~users[w].present /\ users'[w].present) => users'[w].verified = 0
       /\ users[w].present =>
            /\ users'[w].present
            /\ users'[w].verified = users[w].verified \/ ExternalVerify(w)]_vars

\* sign-identity was answered 200 for a wallet whose row it found and
\* updated, and the row is still unverified.
C27_Witness ==
  /\ last.loc.route = "sign-identity"
  /\ last.res.status = 200
  /\ last.loc.found.present
  /\ users[last.loc.wallet].present
  /\ users[last.loc.wallet].verified = 0

\* The stored count of a key is between 1 and the limit of the key.
CountInBounds(rl) ==
  \A k \in RateKeys : rl[k].present => 1 <= rl[k].count /\ rl[k].count <= LimitOf(k)

\* C28: the stored count of every key stays between 1 and its limit; a
\* rejected check leaves the row of its key as it was, an admitted check
\* inside the window adds exactly 1 to count and keeps window_start, and a
\* check of one key leaves the rows of all other keys as they were.
C28_CounterFrame ==
  [][/\ CountInBounds(rateLimits)
     /\ CountInBounds(rateLimits')
     /\ \A k \in RateCheckKeys :
          RateCheck(k, SignGameLimit, SignGameWindowMs) =>
            /\ \A j \in RateKeys \ {k} : rateLimits'[j] = rateLimits[j]
            /\ ~rlLast'.allowed => rateLimits'[k] = rateLimits[k]
            /\ (rlLast'.allowed /\ rateLimits[k].present
                  /\ now - rateLimits[k].window_start < SignGameWindowMs) =>
                 /\ rateLimits'[k].count = rateLimits[k].count + 1
                 /\ rateLimits'[k].window_start = rateLimits[k].window_start]_vars

\* A check was rejected with the count of its key at the limit while another
\* key holds a row of its own with a smaller count.
C28_Witness ==
  /\ rlLast.at # NoTime
  /\ ~rlLast.allowed
  /\ rateLimits[rlLast.key] = rlLast.row
  /\ rlLast.row.count = LimitOf(rlLast.key)
  /\ \E j \in RateCheckKeys \ {rlLast.key} :
       rateLimits[j].present /\ rateLimits[j].count < LimitOf(j)

(***************************************************************************)
(* sign-identity and sign-game-run together, one request at a time, the    *)
(* clock standing, with well-formed and ill-formed bodies.                 *)
(***************************************************************************)
NextAdmission ==
  \/ \E p \in Req, body \in IdentityBodies : Quiet /\ SignIdentity(p, body)
  \/ \E p \in Req, signed \in BOOLEAN : SignIdentityResume(p, signed)
  \/ \E w \in WalletText : ExternalVerify(w)
  \/ \E p \in Req, body \in RunBodies : Quiet /\ SignGameRun(p, body)
  \/ \E p \in Req, verified \in {"null", "true", "false", "throw"} : OracleReturn(p, verified)
  \/ \E p \in Req, signed \in BOOLEAN : SignGameRunResume(p, signed)
SpecAdmission == InitRunPlain /\ [][NextAdmission]_vars

\* The inputs as the request gives them: text of an address, a number in
\* [0, 2^256), a digest of 32 bytes.
InRange(v) == v.num /\ v.hi = 0
WellFormedIdentity(body) == body.wallet \in WalletText /\ InRange(body.commitment)
WellFormedRun(body) ==
  /\ body.wallet \in WalletText
  /\ body.runHash.len = Bytes32
  /\ InRange(body.extractionValue)
  /\ InRange(body.identityCommitment)

\* The step wrote no store and no counter.
NoStoreChange ==
  /\ rateLimits' = rateLimits /\ admitted' = admitted
  /\ users' = users /\ runs' = runs /\ rawRuns' = rawRuns
  /\ faucetClaims' = faucetClaims /\ mintLog' = mintLog /\ issued' = issued

\* The step counted one request in the row of the key and touched no other row.
CountedOnce(k) ==
  /\ \A j \in RateKeys \ {k} : rateLimits'[j] = rateLimits[j]
  /\ rateLimits'[k].present
  /\ \/ /\ rateLimits[k].present
        /\ rateLimits'[k].window_start = rateLimits[k].window_start
        /\ rateLimits'[k].count = rateLimits[k].count + 1
     \/ /\ rateLimits'[k].window_start = now
        /\ rateLimits'[k].count = 1

\* What the step of a handler does to the counters: an ill-formed request is
\* answered invalid_request with one audit row and writes nothing; a
\* well-formed one is either rejected by the limiter, writing nothing, or
\* counted once under the key of its canonical wallet, whatever its outcome.
AdmissionStep(p, wellFormed, k) ==
  IF ~wellFormed
    THEN /\ EndedWith(p, "invalid_request")
         /\ Len(last'.audit) = 1
         /\ NoStoreChange
    ELSE IF EndedWith(p, "rate_limited")
      THEN /\ ~LocalsAfter(p).admitted
           /\ NoStoreChange
      ELSE /\ LocalsAfter(p).admitted
           /\ CountedOnce(k)

\* C29: a sign-identity or sign-game-run request that fails the validation
\* of its wallet, commitment, extractionValue, identityCommitment or runHash
\* consumes no rate-limit quota and writes no store but the audit log; every
\* validated request the limiter admits is counted once under its wallet,
\* also when it then ends with duplicate_run, a mismatch, already_verified
\* or commitment_mismatch.
C29_ValidateThenAdmit ==
  [][\A p \in Req :
       /\ \A body \in IdentityBodies :
            (Free(p) /\ LocalsAfter(p).route = "sign-identity" /\ SignIdentity(p, body)) =>
              AdmissionStep(p, WellFormedIdentity(body),
                            <<"sign-identity", getAddress(body.wallet)>>)
       /\ \A body \in RunBodies :
            (Free(p) /\ LocalsAfter(p).route = "sign-game-run" /\ SignGameRun(p, body)) =>
              AdmissionStep(p, WellFormedRun(body),
                            <<"sign-game", getAddress(body.wallet)>>)]_vars

\* A second request for a run hash was answered duplicate_run and is the
\* second request counted in the window of its wallet.
C29_Witness ==
  /\ last.loc.route = "sign-game-run"
  /\ last.res.error = "duplicate_run"
  /\ rateLimits[<<"sign-game", last.loc.wallet>>].count = 2
  /\ admitted[<<"sign-game", last.loc.wallet>>] = 2

(***************************************************************************)
(* sign-game-run and the faucet, one request at a time, on a deployment    *)
(* with the faucet configured and the oracle configured or not.  The       *)
(* handler's own continuations are taken when they are enabled: signing    *)
(* with the local key, and the answer null of isIdentityVerified when no   *)
(* oracle is configured.  The answers of the oracle contract and of the    *)
(* token contract come from outside, and no step of the handlers stands    *)
(* for a timer: the awaits at api.ts 258 and 358-360 have none.            *)
(***************************************************************************)
InitLive ==
  /\ Init
  /\ deps.store = "sqlite"
  /\ deps.faucetSigner /\ deps.usdtAddress /\ ~deps.methAddress
NextLive ==
  \/ \E p \in Req, body \in OrderRunBodies : Quiet /\ SignGameRun(p, body)
  \/ \E p \in Req, verified \in {"null", "true", "false", "throw"} : OracleReturn(p, verified)
  \/ \E p \in Req, signed \in BOOLEAN : SignGameRunResume(p, signed)
  \/ \E p \in Req, body \in FaucetBodies : Quiet /\ Faucet(p, body)
  \/ \E p \in Req, sent \in BOOLEAN : FaucetMint(p, sent)
  \/ \E p \in Req, confirmed \in BOOLEAN : FaucetWait(p, confirmed)
  \/ \E p \in Req, answered \in BOOLEAN : FaucetBalance(p, answered)
LocalStep ==
  \/ \E p \in Req, signed \in BOOLEAN : SignGameRunResume(p, signed)
  \/ \E p \in Req : ~deps.neonIdentityAddress /\ OracleReturn(p, "null")
SpecLive == InitLive /\ [][NextLive]_vars /\ WF_vars(LocalStep)

\* C30: every sign-game-run request and every faucet request that has begun
\* is eventually answered, also when the oracle or the minting actor never
\* answers.
C30_Terminates ==
  \A p \in Req : (pc[p] # "idle") ~> (pc[p] = "idle")

====
